---- MODULE Spec2Model ----
(***************************************************************************)
(* A model of the reactive core of superfine-reactive-components:          *)
(*   packages/core/src/state.ts      containers, observers, batching       *)
(*   packages/core/src/component.ts  component instances and their renders *)
(***************************************************************************)
EXTENDS Integers, Sequences, FiniteSets, TLC

(***************************************************************************)
(* Bounds of the model.                                                    *)
(***************************************************************************)
MaxVal == 1
MaxWrites == 2
NumKeys == 2
MaxCount == 2

\* The render passes a root attachment is said to allow before it gives up.
MaxRenderDepth == 100

(***************************************************************************)
(* JavaScript values.  Absent marks a key that the backing record does not *)
(* have; reading it yields Undef (undefined).                              *)
(***************************************************************************)
Absent == (-2)
Undef == (-1)
None == "none"

\* The plain object held in p.o, as a value; NoValue: nothing was read.
ObjN == (-4)
NoValue == (-3)
NoResult == <<"none", NoValue>>

Nums == 0..MaxVal

\* The tracked callbacks handed to observer().
Observers == {"o1", "o2"}

\* The (object, key) pairs of the model: "p" is a container made by
\* createProps (a createState container without updateProps behaves the
\* same), "n" is a plain object held in p.o.
Keys == <<"a", "b", "o">>
KeySet == {"a", "b", "o"}
Props == {<<"p", "a">>, <<"p", "b">>, <<"p", "o">>, <<"n", "x">>}

KeyDom(k) == IF k = "o" THEN {ObjN, Undef} ELSE Nums

(***************************************************************************)
(* The application of the component tests: a root App that holds a list of *)
(* item keys and a count, and renders <Item key={k} id={k}/> for each key  *)
(* of the list followed by <Child count={count}/> and, while show is set,   *)
(* by <Counter/>, which holds a local state, registers two mount and two   *)
(* cleanup callbacks, and renders <Leaf/>.  App publishes the context       *)
(* tokens V (two objects) and T, Counter publishes T again, Child looks T   *)
(* up, Leaf looks up T, V and the unpublished U.  An application started    *)
(* with async set renders <Suspense><Async/></Suspense> as well.  An        *)
(* instance is named after the entry of its parent's children map that     *)
(* holds it.                                                               *)
(***************************************************************************)
ItemKeys == 1..NumKeys
NoKey == (-1)

Root == "App"
ChildInst == "Child@0"
ItemInst(k) == "Item#" \o ToString(k)
CounterInst == "Counter@1"
LeafInst == "Leaf@0"
SuspenseInst == "Suspense@1"
AsyncInst == "Async@0"
LooperInst == "Looper@1"
BannerInst == "Banner@0"
ChildInst1 == "Child@1"
InnerInst == "Inner"
Insts == {Root, ChildInst, CounterInst, LeafInst, SuspenseInst, AsyncInst,
          LooperInst, BannerInst, ChildInst1, InnerInst}
         \cup {ItemInst(k) : k \in ItemKeys}

\* The context tokens made by createContext() and the objects published
\* under them: a = {x}, b = {x, y} of App, c = {x} of Counter.
Tokens == {"T", "V", "U"}
CtxA == "ctx:a"
CtxB == "ctx:b"
CtxC == "ctx:c"
CtxKeys == {"x", "y"}

\* The promises handed to createSuspense by <Async/>.
Promises == {"user", "posts"}

\* Every function handed to observer(): the callbacks and the render observers.
Listeners == Observers \cup Insts

\* The containers of an instance: its props container and its state.
PropsOf(i) == "props:" \o i
StateOf(i) == "state:" \o i

TreeProps ==
    {<<StateOf(Root), "items">>, <<StateOf(Root), "count">>, <<PropsOf(ChildInst), "count">>}
    \cup {<<StateOf(Root), "show">>, <<StateOf(CounterInst), "n">>}
    \cup {<<StateOf(Root), "async">>, <<StateOf(SuspenseInst), "pendingCount">>}
    \cup {<<StateOf(Root), "loop">>, <<StateOf(LooperInst), "n">>}
    \cup {<<StateOf(Root), "banner">>, <<PropsOf(ChildInst1), "count">>}
    \cup {<<StateOf(Root), "bare">>}
    \cup {<<CtxA, "x">>, <<CtxB, "x">>, <<CtxB, "y">>, <<CtxC, "x">>}
    \cup {<<StateOf(AsyncInst), p>> : p \in Promises}
    \cup {<<PropsOf(ItemInst(k)), "id">> : k \in ItemKeys}
    \cup {<<StateOf(ItemInst(k)), "n">> : k \in ItemKeys}

AllProps == Props \cup TreeProps

\* The keys of the children map of a parent: `key:${fnId}:${key}` and
\* `pos:${fnId}:${position}`.
CacheKeys ==
    {<<"key", "Item", k>> : k \in ItemKeys}
    \cup {<<"pos", "Child", 0>>, <<"pos", "Counter", 1>>, <<"pos", "Leaf", 0>>,
          <<"pos", "Suspense", 1>>, <<"pos", "Async", 0>>}
    \cup {<<"pos", "Looper", 1>>, <<"pos", "Banner", 0>>, <<"pos", "Child", 1>>}

InstanceName(cacheKey) ==
    IF cacheKey[1] = "key" THEN ItemInst(cacheKey[3])
    ELSE CASE cacheKey[2] = "Counter" -> CounterInst
           [] cacheKey[2] = "Leaf" -> LeafInst
           [] cacheKey[2] = "Suspense" -> SuspenseInst
           [] cacheKey[2] = "Async" -> AsyncInst
           [] cacheKey[2] = "Looper" -> LooperInst
           [] cacheKey[2] = "Banner" -> BannerInst
           [] OTHER -> IF cacheKey[3] = 0 THEN ChildInst ELSE ChildInst1

\* The object a context lookup returns: per key the published object its
\* getter reads, if it has a getter for the key.
NoView == [k \in CtxKeys |-> None]

\* A host vnode h('component', data, children) with what its text shows.
NoVNode == [children |-> <<>>, out |-> NoValue]

\* An instance before createComponentInstance has made it.
NoInstance ==
    [exists |-> FALSE, hostElement |-> FALSE,
     parent |-> None,
     contexts |-> [t \in Tokens |-> [has |-> FALSE, values |-> <<>>]],
     view |-> [t \in Tokens |-> NoView],   \* what the setup's context.get() returned
     found |-> [t \in Tokens |-> None],    \* the instance whose values the lookup took
     suspenseBoundary |-> FALSE,
     children |-> [ck \in CacheKeys |-> None], childPosition |-> 0,
     dispose |-> FALSE, hasMounted |-> FALSE,
     mountCallbacks |-> <<>>, cleanupCallbacks |-> <<>>,
     hooked |-> FALSE,            \* _cachedVNode.data.hook holds insert and destroy
     cachedVNode |-> NoVNode,     \* instance._cachedVNode
     currentVNode |-> NoVNode,    \* currentVNode of the render observer's closure
     shared |-> FALSE,            \* currentVNode and _cachedVNode are one object
     shown |-> NoValue]           \* the text the host element displays

VARIABLES
    target,                  \* backing records: Props -> value or Absent
    listeners,               \* per property the Set<Listener>, in insertion order
    observerSubscriptions,   \* per observer the (object, key) pairs it is subscribed to
    isDisposed,              \* per observer the isDisposed flag of its closure
    created,                 \* observers for which observer(fn) has been called
    currentObserver,         \* the global tracking context
    pendingNotifications,    \* Set<Listener>, in insertion order
    isNotificationScheduled,
    microtasks,              \* the host's microtask queue
    flushing,                \* the listeners array of a running flush, not yet invoked
    stateMetadata,           \* objects that have reactive metadata
    nestedProxyCache,        \* per owner the nested values with a cached proxy
    inTurn,                  \* synchronous application code is running
    fresh,                   \* per observer: nothing its last run read has changed since
    ranInFlush,              \* the callbacks whose body ran in the flush under way
    turnWrites,              \* writes that changed a value in this turn (capped)
    lastRead,                \* per observer the pairs its last run read through a container
    lastGet,                 \* what the last read of p.o returned since the last write
    lastOp,                  \* the operation performed by the last step
    lastRan,                 \* the callbacks whose body the last step executed, in order
    lastArg,                 \* the partial handed to updateProps by the last step
    instance,                \* the component instances
    currentRenderingComponent,
    currentSetupComponent,
    currentComponentContext, \* the instance whose lifecycle context collects callbacks
    rootVNode,               \* currentVNode of render(): "none", "mounted", "unmounted"
    event,                   \* the event handler that began the turn, if it changed a value
    renderCount,             \* the runs of Child's render function since the turn began (capped)
    setupCount,              \* per instance the calls of its component function (capped)
    mountCount,              \* per instance the calls of its mount callbacks (capped)
    cleanupCount,            \* per instance the calls of its cleanup callbacks (capped)
    cachedWrites,            \* per instance the assignments to its _cachedVNode (capped)
    renderDepth,             \* the runs of Looper's render function since the root was attached (capped)
    promise,                 \* per promise its state, promiseCache entry and reactions
    lastSetup,               \* the instances the last step set up, in order
    lastMounted,             \* the instances whose mount callbacks the last step ran
    lastCleaned,             \* the instances whose cleanup callbacks the last step ran
    lastCalls,               \* the lifecycle callbacks the last step invoked, in order
    lastErrors               \* the errors the application caught in the last step

engineVars == <<target, listeners, observerSubscriptions, isDisposed, created,
                currentObserver, pendingNotifications, isNotificationScheduled,
                microtasks, flushing, stateMetadata, nestedProxyCache, inTurn,
                fresh, ranInFlush, turnWrites, lastRead, lastGet, lastOp, lastRan, lastArg>>

treeVars == <<instance, currentRenderingComponent, currentSetupComponent,
              currentComponentContext, rootVNode, event, renderCount, setupCount,
              mountCount, cleanupCount, cachedWrites, renderDepth, promise>>

stepVars == <<lastSetup, lastMounted, lastCleaned, lastCalls, lastErrors>>

vars == <<engineVars, treeVars, stepVars>>

(***************************************************************************)
(* Sequences used as insertion-ordered sets (JavaScript Set).              *)
(***************************************************************************)
SeqToSet(s) == {s[i] : i \in 1..Len(s)}

SetAdd(s, x) == IF x \in SeqToSet(s) THEN s ELSE Append(s, x)

SetDelete(s, x) == SelectSeq(s, LAMBDA y : y # x)

(***************************************************************************)
(* The engine state as one record, so that a handler that makes several    *)
(* calls can be composed from operators.                                   *)
(***************************************************************************)
E == [target |-> target, listeners |-> listeners,
      observerSubscriptions |-> observerSubscriptions,
      isDisposed |-> isDisposed, created |-> created,
      currentObserver |-> currentObserver,
      pendingNotifications |-> pendingNotifications,
      isNotificationScheduled |-> isNotificationScheduled,
      microtasks |-> microtasks, flushing |-> flushing,
      stateMetadata |-> stateMetadata,
      nestedProxyCache |-> nestedProxyCache,
      fresh |-> fresh, ranInFlush |-> ranInFlush, turnWrites |-> turnWrites,
      lastRead |-> lastRead, lastGet |-> lastGet, ran |-> <<>>,
      arg |-> [k \in KeySet |-> Absent],
      instance |-> instance,
      currentRenderingComponent |-> currentRenderingComponent,
      currentSetupComponent |-> currentSetupComponent,
      currentComponentContext |-> currentComponentContext,
      rootVNode |-> rootVNode, event |-> event, renderCount |-> renderCount,
      setupCount |-> setupCount, mountCount |-> mountCount,
      cleanupCount |-> cleanupCount, cachedWrites |-> cachedWrites,
      renderDepth |-> renderDepth,
      promise |-> promise, jobs |-> <<>>,
      insertedVnodeQueue |-> <<>>, initialItems |-> <<>>, initialShow |-> 0,
      initialAsync |-> 0, initialLoop |-> 0, initialBanner |-> 0,
      setup |-> <<>>, mounted |-> <<>>, cleaned |-> <<>>,
      calls |-> <<>>, errors |-> <<>>, thrown |-> None]

Commit(e) ==
    /\ target' = e.target
    /\ listeners' = e.listeners
    /\ observerSubscriptions' = e.observerSubscriptions
    /\ isDisposed' = e.isDisposed
    /\ created' = e.created
    /\ currentObserver' = e.currentObserver
    /\ pendingNotifications' = e.pendingNotifications
    /\ isNotificationScheduled' = e.isNotificationScheduled
    /\ microtasks' = e.microtasks
    /\ flushing' = e.flushing
    /\ stateMetadata' = e.stateMetadata
    /\ nestedProxyCache' = e.nestedProxyCache
    /\ fresh' = e.fresh
    /\ ranInFlush' = e.ranInFlush
    /\ turnWrites' = e.turnWrites
    /\ lastRead' = e.lastRead
    /\ lastGet' = e.lastGet
    /\ lastRan' = e.ran
    /\ lastArg' = e.arg
    /\ instance' = e.instance
    /\ currentRenderingComponent' = e.currentRenderingComponent
    /\ currentSetupComponent' = e.currentSetupComponent
    /\ currentComponentContext' = e.currentComponentContext
    /\ rootVNode' = e.rootVNode
    /\ event' = e.event
    /\ renderCount' = e.renderCount
    /\ setupCount' = e.setupCount
    /\ mountCount' = e.mountCount
    /\ cleanupCount' = e.cleanupCount
    /\ cachedWrites' = e.cachedWrites
    /\ renderDepth' = e.renderDepth
    /\ promise' = e.promise
    /\ lastSetup' = e.setup
    /\ lastMounted' = e.mounted
    /\ lastCleaned' = e.cleaned
    /\ lastCalls' = e.calls
    /\ lastErrors' = e.errors

FlushTask == [type |-> "flush"]

\* scheduleNotification with the pending notifications kept in a list.
scheduleNotificationList(e, l) ==
    LET e1 == [e EXCEPT !.pendingNotifications = Append(@, l)]
    IN  IF ~e.isNotificationScheduled
        THEN [e1 EXCEPT !.isNotificationScheduled = TRUE,
                        !.microtasks = Append(@, FlushTask)]
        ELSE e1

\* scheduleNotification whose flush walks the pending set itself: a listener
\* added while a flush is executing joins that flush.
scheduleNotificationLive(e, l) ==
    IF e.flushing # <<>>
    THEN [e EXCEPT !.flushing = SetAdd(@, l)]
    ELSE LET e1 == [e EXCEPT !.pendingNotifications = SetAdd(@, l)]
         IN  IF ~e.isNotificationScheduled
             THEN [e1 EXCEPT !.isNotificationScheduled = TRUE,
                             !.microtasks = Append(@, FlushTask)]
             ELSE e1

\* scheduleNotification that moves a listener that is enqueued again to the end.
scheduleNotificationLast(e, l) ==
    LET e1 == [e EXCEPT !.pendingNotifications = Append(SetDelete(@, l), l)]
    IN  IF ~e.isNotificationScheduled
        THEN [e1 EXCEPT !.isNotificationScheduled = TRUE,
                        !.microtasks = Append(@, FlushTask)]
        ELSE e1

(***************************************************************************)
(* scheduleNotification(listener)                                          *)
(***************************************************************************)
scheduleNotification(e, l) ==
    LET e1 == [e EXCEPT !.pendingNotifications = SetAdd(@, l)]
    IN  IF ~e.isNotificationScheduled
        THEN [e1 EXCEPT !.isNotificationScheduled = TRUE,
                        !.microtasks = Append(@, FlushTask)]
        ELSE e1

\* propertyListeners.forEach(listener => scheduleNotification(listener))
RECURSIVE notifyListeners(_, _)
notifyListeners(e, ls) ==
    IF ls = <<>> THEN e
    ELSE notifyListeners(scheduleNotification(e, Head(ls)), Tail(ls))

\* Reflect.get(target, property)
ReflectGet(e, pr) == IF e.target[pr] = Absent THEN Undef ELSE e.target[pr]

\* The record after target[pr] has been given another value: the callbacks
\* whose last run read pr have no longer seen the current values.
Store(e, pr, value) ==
    [e EXCEPT !.target[pr] = value,
              !.lastGet = NoResult,
              !.fresh = [o \in Listeners |-> @[o] /\ pr \notin e.lastRead[o]]]

\* A set trap that notifies without comparing the old and the new value.
ProxySetAlways(e, pr, value) ==
    notifyListeners(Store(e, pr, value), e.listeners[pr])

(***************************************************************************)
(* The proxy's set trap.                                                   *)
(***************************************************************************)
ProxySet(e, pr, value) ==
    IF ReflectGet(e, pr) # value
    THEN notifyListeners(Store(e, pr, value), e.listeners[pr])
    ELSE e

(***************************************************************************)
(* The proxy's get trap: the engine after the read, and the value the read *)
(* returns.  A nested object is returned as <<"proxy", v>> or, unwrapped,  *)
(* as <<"raw", v>>.                                                        *)
(***************************************************************************)
IsObject(v) == v = ObjN

\* The object a value refers to, as the owner of properties.
ObjName(v) == "n"

TrackAccess(e, pr) ==
    IF e.currentObserver # None
    THEN [e EXCEPT !.listeners[pr] = SetAdd(@, e.currentObserver),
                   !.observerSubscriptions[e.currentObserver] = @ \cup {pr}]
    ELSE e

ProxyGetValue(e, pr) ==
    LET value == ReflectGet(e, pr)
    IN  IF IsObject(value) /\ ObjName(value) \notin e.stateMetadata
        THEN <<"proxy", value>>
        ELSE IF IsObject(value) THEN <<"raw", value>> ELSE <<"prim", value>>

ProxyGet(e, pr) ==
    LET e1 == TrackAccess(e, pr)
        value == ReflectGet(e1, pr)
        owner == pr[1]
    IN  IF IsObject(value) /\ ObjName(value) \notin e1.stateMetadata
        THEN IF value \notin e1.nestedProxyCache[owner]
             THEN \* createReactiveProxy(value): metadata is keyed by the raw value
                  [e1 EXCEPT !.stateMetadata = @ \cup {ObjName(value)},
                             !.nestedProxyCache[owner] = @ \cup {value}]
             ELSE e1
        ELSE e1

\* clearObserverSubscriptions that forgets the subscriptions and leaves the
\* callback in the listener sets.
clearObserverSubscriptionsKeep(e, o) ==
    [e EXCEPT !.observerSubscriptions[o] = {}]

(***************************************************************************)
(* clearObserverSubscriptions(observerFn)                                  *)
(***************************************************************************)
clearObserverSubscriptions(e, o) ==
    [e EXCEPT !.listeners = [pr \in AllProps |->
                                IF pr \in e.observerSubscriptions[o]
                                THEN SetDelete(e.listeners[pr], o)
                                ELSE e.listeners[pr]],
              !.observerSubscriptions[o] = {}]

\* The disposer returned by observer().
Disposer(e, o) ==
    clearObserverSubscriptions([e EXCEPT !.isDisposed[o] = TRUE], o)

(***************************************************************************)
(* updateProps(proxy, newProps).  newProps is written as a function on all *)
(* keys, Absent marking the keys it does not have.                         *)
(***************************************************************************)
HasKey(newProps, key) == newProps[key] # Absent

RECURSIVE updateChanged(_, _, _, _)
updateChanged(e, c, newProps, ks) ==
    IF ks = <<>> THEN e
    ELSE LET key == Head(ks)
             pr == <<c, key>>
             e1 == IF HasKey(newProps, key) /\ ReflectGet(e, pr) # newProps[key]
                   THEN notifyListeners(Store(e, pr, newProps[key]), e.listeners[pr])
                   ELSE e
         IN  updateChanged(e1, c, newProps, Tail(ks))

RECURSIVE updateDeleted(_, _, _, _, _)
updateDeleted(e, c, newProps, existingKeys, ks) ==
    IF ks = <<>> THEN e
    ELSE LET key == Head(ks)
             pr == <<c, key>>
             e1 == IF key \in existingKeys /\ ~HasKey(newProps, key)
                   THEN notifyListeners(Store(e, pr, Absent), e.listeners[pr])
                   ELSE e
         IN  updateDeleted(e1, c, newProps, existingKeys, Tail(ks))

\* updateProps without the pass that deletes the keys newProps lacks.
updatePropsNoDelete(e, c, ks, newProps) == updateChanged(e, c, newProps, ks)

\* c is the container, ks its keys in the order of their creation.
updateProps(e, c, ks, newProps) ==
    LET existingKeys == {k \in SeqToSet(ks) : e.target[<<c, k>>] # Absent}
    IN  updateDeleted(updateChanged(e, c, newProps, ks), c, newProps, existingKeys, ks)

(***************************************************************************)
(* The bodies of the tracked callbacks.  A plan is the code path one run   *)
(* takes: which of p.a, p.b it reads, whether it reads p.o or p.o?.x, and  *)
(* what it does afterwards (nothing, a write to p.b, disposing a callback, *)
(* throwing an error).                                                     *)
(***************************************************************************)
Effects ==
    {[t |-> "none", v |-> 0, o |-> None]}
    \cup {[t |-> "set", v |-> v, o |-> None] : v \in Nums}
    \cup {[t |-> "dispose", v |-> 0, o |-> o] : o \in Observers}
    \cup {[t |-> "throw", v |-> 0, o |-> None]}

Plans == [reads : SUBSET {"a", "b"}, obj : {"no", "shallow", "deep"}, eff : Effects]

ReadTracked(e, o, pr) ==
    LET r == ProxyGetValue(TrackAccess(e, pr), pr)
        e1 == ProxyGet(e, pr)
    IN  [e1 EXCEPT !.lastRead[o] = @ \cup {pr},
                   !.lastGet = IF pr = <<"p", "o">> THEN r ELSE @]

ReadNested(e, o, how) ==
    \* p.o?.x : through the proxy if the read of p.o returned one
    IF how = "proxy" THEN ReadTracked(e, o, <<"n", "x">>)
    ELSE e

RunBody(e, o, plan) ==
    LET e0 == [e EXCEPT !.lastRead[o] = {}, !.fresh[o] = TRUE, !.ran = Append(@, o)]
        e1 == IF "a" \in plan.reads THEN ReadTracked(e0, o, <<"p", "a">>) ELSE e0
        e2 == IF "b" \in plan.reads THEN ReadTracked(e1, o, <<"p", "b">>) ELSE e1
        got == ProxyGetValue(TrackAccess(e2, <<"p", "o">>), <<"p", "o">>)
        e3 == IF plan.obj # "no" THEN ReadTracked(e2, o, <<"p", "o">>) ELSE e2
        e4 == IF plan.obj = "deep" /\ got[1] # "prim" THEN ReadNested(e3, o, got[1]) ELSE e3
    IN  CASE plan.eff.t = "set" -> ProxySet(e4, <<"p", "b">>, plan.eff.v)
          [] plan.eff.t = "dispose" -> Disposer(e4, plan.eff.o)
          [] plan.eff.t = "throw" -> [e4 EXCEPT !.thrown = "Error: callback"]
          [] OTHER -> e4

(***************************************************************************)
(* The application's components.  The array held in items is written as a  *)
(* number; its wrapper only tracks the keys of the array itself, which the *)
(* application never writes.                                               *)
(***************************************************************************)
Base == NumKeys + 1

RECURSIVE Encode(_)
Encode(s) == IF s = <<>> THEN 0 ELSE Head(s) + Base * Encode(Tail(s))

RECURSIVE Decode(_)
Decode(c) == IF c = 0 THEN <<>> ELSE <<c % Base>> \o Decode(c \div Base)

ArrayOf(s) == Encode(s)
ItemsOf(v) == Decode(v)

\* The lists of item keys without a repeated key.
Lists == {s \in UNION {[1..n -> ItemKeys] : n \in 0..NumKeys} :
             \A i, j \in 1..Len(s) : s[i] = s[j] => i = j}

\* A counter of calls, which stops at MaxCount.
Bump(n) == IF n < MaxCount THEN n + 1 ELSE n

componentFn(i) ==
    CASE i = Root -> "App"
      [] i = ChildInst -> "Child"
      [] i = CounterInst -> "Counter"
      [] i = LeafInst -> "Leaf"
      [] i = SuspenseInst -> "Suspense"
      [] i = AsyncInst -> "Async"
      [] i = LooperInst -> "Looper"
      [] i = BannerInst -> "Banner"
      [] i = ChildInst1 -> "Child"
      [] i = InnerInst -> "Inner"
      [] OTHER -> "Item"

PropKeys(fn) == IF fn = "Child" THEN <<"count">> ELSE IF fn = "Item" THEN <<"id">> ELSE <<>>

\* JSX elements { type, props }, the key taken out of the props.
Jsx(type, key, props) == [type |-> type, key |-> key, props |-> props]

ItemJsx(k) == Jsx("Item", k, [x \in {"id"} |-> k])
ChildJsx(c) == Jsx("Child", NoKey, [x \in {"count"} |-> c])
CounterJsx == Jsx("Counter", NoKey, <<>>)
LeafJsx == Jsx("Leaf", NoKey, <<>>)
AsyncJsx == Jsx("Async", NoKey, <<>>)
LooperJsx == Jsx("Looper", NoKey, <<>>)
BannerJsx == Jsx("Banner", NoKey, <<>>)
InnerJsx == Jsx("Inner", NoKey, <<>>)
\* <Child/> without props
BareChildJsx == Jsx("Child", NoKey, <<>>)
\* <Suspense fallback={<div id="loading"/>}><Async/></Suspense>
SuspenseJsx == Jsx("Suspense", NoKey, <<>>)
AppJsx == Jsx("App", NoKey, <<>>)

RECURSIVE ItemsJsx(_)
ItemsJsx(s) == IF s = <<>> THEN <<>> ELSE <<ItemJsx(Head(s))>> \o ItemsJsx(Tail(s))

\* A read through a container, inside or outside a tracked run.
Read(e, pr) ==
    IF e.currentObserver # None THEN ReadTracked(e, e.currentObserver, pr)
    ELSE ProxyGet(e, pr)

\* createReactiveProxy(target) for the container c with the given values.
createReactiveProxy(e, c, values) ==
    [e EXCEPT !.target = [pr \in AllProps |->
                             IF pr[1] = c THEN values[pr[2]] ELSE @[pr]],
              !.listeners = [pr \in AllProps |-> IF pr[1] = c THEN <<>> ELSE @[pr]],
              !.stateMetadata = @ \cup {c}]

\* throw new Error(message): the exception is in flight until it is caught.
Throw(e, message) == [e EXCEPT !.thrown = message]

\* try { ... } catch (error) { errors.push(error.message) } of the application
\* around a call made from the given place.
Catch(e, place) ==
    IF e.thrown # None
    THEN [e EXCEPT !.errors = Append(@, <<place, e.thrown>>), !.thrown = None]
    ELSE e

\* onMount that registers the callback with whatever context there is.
onMountAnywhere(e, cb) ==
    IF e.currentComponentContext = None THEN e
    ELSE [e EXCEPT !.instance[e.currentComponentContext].mountCallbacks = Append(@, cb)]

\* onMount(callback)
onMount(e, cb) ==
    IF e.currentComponentContext = None
    THEN Throw(e, "onMount can only be called during component setup phase")
    ELSE [e EXCEPT !.instance[e.currentComponentContext].mountCallbacks = Append(@, cb)]

\* onCleanup(callback)
onCleanup(e, cb) ==
    IF e.currentComponentContext = None
    THEN Throw(e, "onCleanup can only be called during component setup phase")
    ELSE [e EXCEPT !.instance[e.currentComponentContext].cleanupCallbacks = Append(@, cb)]

(***************************************************************************)
(* Context: createContext() gives a token with set(...values) and get().   *)
(***************************************************************************)
\* Object.keys(obj) holds the key
OwnKey(e, obj, k) == <<obj, k>> \in AllProps /\ HasKey(e.target, <<obj, k>>)

\* The getters of obj defined over the getters there are.
AddGettersLastWins(e, obj, result) ==
    [k \in CtxKeys |-> IF OwnKey(e, obj, k) THEN obj ELSE result[k]]

\* for (const key of Object.keys(obj)) if (!(key in result)) defineProperty(...)
AddGetters(e, obj, result) ==
    [k \in CtxKeys |-> IF OwnKey(e, obj, k) /\ result[k] = None THEN obj ELSE result[k]]

\* createGetterObject(values), from the getters made so far
RECURSIVE createGetterObject(_, _, _)
createGetterObject(e, values, result) ==
    IF values = <<>> THEN result
    ELSE createGetterObject(e, Tail(values), AddGetters(e, Head(values), result))

\* view[key]: the getter returns obj[key], read through the wrapper of obj.
ViewGet(e, view, k) == IF view[k] = None THEN e ELSE Read(e, <<view[k], k>>)

ViewValue(e, view, k) == IF view[k] = None THEN Undef ELSE ReflectGet(e, <<view[k], k>>)

\* setContextValue that replaces what the instance has published.
setContextValueOverwrite(e, t, i, values) ==
    [e EXCEPT !.instance[i].contexts[t] = [has |-> TRUE, values |-> values]]

\* setContextValue(context, currentComponent, values)
setContextValue(e, t, i, values) ==
    IF e.instance[i].contexts[t].has
    THEN Throw(e, "context.set() can only be called once per component")
    ELSE [e EXCEPT !.instance[i].contexts[t] = [has |-> TRUE, values |-> values]]

\* context.set(...values)
ContextSet(e, t, values) ==
    IF e.currentSetupComponent = None
    THEN Throw(e, "context.set() must be called during component setup")
    ELSE setContextValue(e, t, e.currentSetupComponent, values)

\* A lookup that asks the calling instance and its parent only.
FindPublisherNear(e, i, t) ==
    IF i = None THEN None
    ELSE IF e.instance[i].contexts[t].has THEN i
    ELSE IF e.instance[i].parent # None /\ e.instance[e.instance[i].parent].contexts[t].has
         THEN e.instance[i].parent
    ELSE None

\* while (instance) { values = instance.contexts?.get(id); ...; instance = instance.parent }
RECURSIVE FindPublisher(_, _, _)
FindPublisher(e, i, t) ==
    IF i = None THEN None
    ELSE IF e.instance[i].contexts[t].has THEN i
    ELSE FindPublisher(e, e.instance[i].parent, t)

\* getContextValue(context, currentComponent); the setup keeps what it returns.
getContextValue(e, t, i) ==
    LET Found(pub) ==
            IF pub = None
            THEN Throw(e, "Context not found in component tree")
            ELSE [e EXCEPT !.instance[i].view[t] =
                               createGetterObject(e, e.instance[pub].contexts[t].values,
                                                  NoView),
                           !.instance[i].found[t] = pub]
    IN  Found(FindPublisher(e, i, t))

\* context.get()
ContextGet(e, t) ==
    IF e.currentSetupComponent = None
    THEN Throw(e, "context.get() must be called during component setup")
    ELSE getContextValue(e, t, e.currentSetupComponent)

(***************************************************************************)
(* Suspense                                                                *)
(***************************************************************************)
\* state.pendingCount += count of the boundary held by instance b
addPending(e, b, count) ==
    LET Add(e1) == ProxySet(e1, <<StateOf(b), "pendingCount">>,
                            ReflectGet(e1, <<StateOf(b), "pendingCount">>) + count)
    IN  Add(Read(e, <<StateOf(b), "pendingCount">>))

\* state.pendingCount -= count
removePending(e, b, count) ==
    LET Sub(e1) == ProxySet(e1, <<StateOf(b), "pendingCount">>,
                            ReflectGet(e1, <<StateOf(b), "pendingCount">>) - count)
    IN  Sub(Read(e, <<StateOf(b), "pendingCount">>))

RECURSIVE WalkToBoundary(_, _)
WalkToBoundary(e, i) ==
    IF i = None THEN None
    ELSE IF e.instance[i].suspenseBoundary THEN i
    ELSE WalkToBoundary(e, e.instance[i].parent)

\* findNearestSuspenseBoundary(component): the instance that holds it
findNearestSuspenseBoundary(e, i) ==
    IF i = None THEN None ELSE WalkToBoundary(e, e.instance[i].parent)

\* The error a promise of the application is rejected with.
RejectedWith(p) == "Error: Test error"

\* console.error(`Promise rejected in createSuspense (key: ${key}):`, error)
ConsoleError(e, p) ==
    [e EXCEPT !.errors = Append(@, <<"console", p>>)]

\* The microtasks createSuspense queues: boundary.addPending(count) of its
\* queueMicrotask call, and the reaction of a promise that had settled when
\* then() was called on it.
AddPendingJob(b, count) == [kind |-> "addPending", b |-> b, count |-> count,
                            p |-> None, c |-> None]
ReactionJob(p, c, b) == [kind |-> "reaction", b |-> b, count |-> 1, p |-> p, c |-> c]

\* promise.then(onResolved, onRejected): the reaction waits for a pending
\* promise to settle and is queued at once for a settled one.
PromiseThen(e, p, c, b) ==
    IF e.promise[p].status = "pending"
    THEN [e EXCEPT !.promise[p].reactions = Append(@, <<c, b>>)]
    ELSE [e EXCEPT !.jobs = Append(@, ReactionJob(p, c, b))]

\* The loop of createSuspense over the promises: a promise seen for the first
\* time gets a cache entry and a reaction, a pending one is counted, a
\* resolved one hands its value over, a rejected one is thrown.
RECURSIVE TrackPromises(_, _, _, _, _)
TrackPromises(e, ps, c, b, pendingCount) ==
    IF ps = <<>> THEN [e |-> e, pendingCount |-> pendingCount]
    ELSE LET p == Head(ps)
         IN  IF ~e.promise[p].cached
             THEN TrackPromises(PromiseThen([e EXCEPT !.promise[p].cached = TRUE,
                                                      !.promise[p].cache = "pending"],
                                            p, c, b),
                                Tail(ps), c, b, pendingCount + 1)
             ELSE IF e.promise[p].cache = "resolved"
             THEN TrackPromises(ProxySet(e, <<c, p>>, 1), Tail(ps), c, b, pendingCount)
             ELSE IF e.promise[p].cache = "rejected"
             THEN [e |-> Throw(e, RejectedWith(p)), pendingCount |-> 0]
             ELSE TrackPromises(e, Tail(ps), c, b, pendingCount + 1)

\* createSuspense(promises)
createSuspense(e, ps) ==
    LET currentComponent == e.currentSetupComponent
        boundary == findNearestSuspenseBoundary(e, currentComponent)
        Notify(r) == IF r.pendingCount > 0
                     THEN [r.e EXCEPT !.jobs = Append(@, AddPendingJob(boundary, r.pendingCount))]
                     ELSE r.e
        Track(e1) == Notify(TrackPromises(e1, ps, StateOf(currentComponent), boundary, 0))
    IN  IF currentComponent = None
        THEN Throw(e, "createSuspense must be called during component setup phase")
        ELSE IF boundary = None
        THEN Throw(e, "createSuspense must be used inside a <Suspense> boundary")
        ELSE Track(createReactiveProxy(e, StateOf(currentComponent),
                                       [p \in Promises |-> Absent]))

\* The reactions of a promise that resolves: cache.status = 'resolved';
\* resolvedValues[key] = value; boundary.removePending(1)
RECURSIVE RunReactions(_, _, _)
RunReactions(e, p, rs) ==
    IF rs = <<>> THEN e
    ELSE RunReactions(removePending(ProxySet([e EXCEPT !.promise[p].cache = "resolved"],
                                             <<Head(rs)[1], p>>, 1),
                                    Head(rs)[2], 1),
                      p, Tail(rs))

\* The reactions of a promise that rejects: cache.status = 'rejected';
\* boundary.removePending(1); console.error(...)
RECURSIVE RunRejections(_, _, _)
RunRejections(e, p, rs) ==
    IF rs = <<>> THEN e
    ELSE RunRejections(ConsoleError(removePending([e EXCEPT !.promise[p].cache = "rejected"],
                                                  Head(rs)[2], 1), p),
                       p, Tail(rs))

\* The microtasks createSuspense queued, run in the order they were queued.
RunJob(e, job) ==
    IF job.kind = "addPending" THEN addPending(e, job.b, job.count)
    ELSE IF e.promise[job.p].status = "resolved"
    THEN RunReactions(e, job.p, << <<job.c, job.b>> >>)
    ELSE RunRejections(e, job.p, << <<job.c, job.b>> >>)

RECURSIVE RunJobs(_, _)
RunJobs(e, jobs) ==
    IF jobs = <<>> THEN [e EXCEPT !.jobs = <<>>]
    ELSE RunJobs(RunJob(e, Head(jobs)), Tail(jobs))

\* The operations that need an instance in its setup phase.
ApiOps == <<"onMount", "onCleanup", "set", "get", "createSuspense">>

Api(e, op) ==
    CASE op = "onMount" -> onMount(e, "late")
      [] op = "onCleanup" -> onCleanup(e, "late")
      [] op = "set" -> ContextSet(e, "U", <<CtxA>>)
      [] op = "get" -> ContextGet(e, "T")
      [] OTHER -> createSuspense(e, <<"user">>)

OutsideMessage(op) ==
    CASE op = "onMount" -> "onMount can only be called during component setup phase"
      [] op = "onCleanup" -> "onCleanup can only be called during component setup phase"
      [] op = "set" -> "context.set() must be called during component setup"
      [] op = "get" -> "context.get() must be called during component setup"
      [] OTHER -> "createSuspense must be called during component setup phase"

\* try { op() } catch (error) { ... } for each operation in turn
RECURSIVE Probe(_, _, _)
Probe(e, ops, place) ==
    IF ops = <<>> THEN e ELSE Probe(Catch(Api(e, Head(ops)), place), Tail(ops), place)

\* The value a key of the root's state starts with.
InitialState(e, x) ==
    CASE x = "items" -> ArrayOf(e.initialItems)
      [] x = "show" -> e.initialShow
      [] x = "async" -> e.initialAsync
      [] x = "loop" -> e.initialLoop
      [] x = "banner" -> e.initialBanner
      [] OTHER -> 0

\* The component functions (setup phase).  App: createState({items, count: 0,
\* show, async, loop, banner, bare}), a = createState({x: 0}), b = createState({x: 1, y: 1}),
\* V.set(a, b), T.set(b); Item: createState({n: 0}), onMount and onCleanup
\* with callbacks that read props.id; Counter: createState({n: 0}), two
\* onMount and two onCleanup calls, c = createState({x: 0}), T.set(c) and a
\* second T.set(state) in a try block; Child: T.get(); Leaf: T.get(), V.get()
\* and U.get() in a try block, then createSuspense({user}) in another (no
\* boundary is above it); Looper: createState({n: 0}); Banner: nothing;
\* Async: createSuspense({user, posts}).
\* App's component function: its state objects, and the contexts it publishes.
AppState(e, i) ==
    LET MakeB(e1) == createReactiveProxy(e1, CtxB, [x \in CtxKeys |-> 1])
        MakeA(e1) == createReactiveProxy(e1, CtxA, [x \in {"x"} |-> 0])
    IN  MakeB(MakeA(createReactiveProxy(e, StateOf(i),
                                        [x \in {"items", "count", "show", "async",
                                                "loop", "banner", "bare"} |->
                                            InitialState(e, x)])))

AppContexts(e) == ContextSet(ContextSet(e, "V", <<CtxA, CtxB>>), "T", <<CtxB>>)

ComponentBody(e, i) ==
    CASE componentFn(i) = "App" -> AppContexts(AppState(e, i))
      [] componentFn(i) = "Inner" -> Throw(onMount(e, "inner"), "Error: inner")
      [] componentFn(i) = "Item" ->
            onCleanup(onMount(createReactiveProxy(e, StateOf(i), [x \in {"n"} |-> 0]),
                              "readId"), "readId")
      [] componentFn(i) = "Counter" ->
            LET MakeC(e1) == createReactiveProxy(e1, CtxC, [x \in {"x"} |-> 0])
            IN  Catch(ContextSet(ContextSet(MakeC(
                    onCleanup(onCleanup(onMount(onMount(
                        createReactiveProxy(e, StateOf(i), [x \in {"n"} |-> 0]),
                        "m1"), "m2"), "c1"), "c2")),
                    "T", <<CtxC>>), "T", <<StateOf(i)>>), "setup")
      [] componentFn(i) = "Child" -> ContextGet(e, "T")
      [] componentFn(i) = "Leaf" ->
            Catch(createSuspense(
                      Catch(ContextGet(ContextGet(ContextGet(e, "T"), "V"), "U"), "setup"),
                      <<"user">>), "unbounded")
      [] componentFn(i) = "Looper" ->
            createReactiveProxy(e, StateOf(i), [x \in {"n"} |-> 0])
      [] componentFn(i) = "Banner" ->
            \* const t = T.get(); const first = t.x
            LET First(e1) == IF e1.thrown # None THEN e1
                             ELSE ViewGet(e1, e1.instance[i].view["T"], "x")
            IN  First(ContextGet(e, "T"))
      [] componentFn(i) = "Suspense" ->
            \* componentInstance.renderContexts is undefined
            Throw([createReactiveProxy(e, StateOf(i), [x \in {"pendingCount"} |-> 0])
                      EXCEPT !.instance[i].suspenseBoundary = TRUE],
                  "TypeError: Cannot read properties of undefined (reading 'set')")
      [] OTHER -> createSuspense(e, <<"user", "posts">>)

\* A lifecycle callback of instance i: "readId" reads props.id, "m2" finds
\* that the operations of the setup phase throw when called from a mount
\* callback, the others only leave their name in the log of calls.
RunCallback(e, i, cb) ==
    LET Body(e1) == CASE cb = "readId" -> Read(e1, <<PropsOf(i), "id">>)
                      [] cb = "m2" -> Probe(e1, ApiOps, "mount")
                      [] OTHER -> e1
    IN  Body([e EXCEPT !.calls = Append(@, <<i, cb>>)])

\* The reads state[k] of the keys ks of one state object, one after the other.
RECURSIVE ReadKeys(_, _, _)
ReadKeys(e, obj, ks) ==
    IF ks = <<>> THEN e
    ELSE CHOOSE r \in {ReadKeys(e1, obj, Tail(ks)) : e1 \in {Read(e, <<obj, Head(ks)>>)}} : TRUE

\* The text <div>{vx} {vy} {tx}</div> displays, as one number.
LeafText(vx, vy, tx) == vx + (MaxVal + 1) * vy + (MaxVal + 1) * (MaxVal + 1) * tx

\* The render functions: the engine after their reads, the JSX they return
\* and the text that JSX shows.
RenderFn(e, i) ==
    CASE componentFn(i) = "App" ->
            \* state.bare ? <Child/> : <Child count={state.count}/>
            LET bare == ReflectGet(e, <<StateOf(i), "bare">>) = 1
            IN  [e |-> ReadKeys(e, StateOf(i),
                                <<"items", "banner", "bare">>
                                \o (IF bare THEN <<>> ELSE <<"count">>)
                                \o <<"show", "loop", "async">>),
                 out |-> NoValue,
                 jsx |-> ItemsJsx(ItemsOf(ReflectGet(e, <<StateOf(i), "items">>)))
                         \o (IF ReflectGet(e, <<StateOf(i), "banner">>) = 1
                             THEN <<BannerJsx>> ELSE <<>>)
                         \o <<IF bare THEN BareChildJsx
                              ELSE ChildJsx(ReflectGet(e, <<StateOf(i), "count">>))>>
                         \o (IF ReflectGet(e, <<StateOf(i), "show">>) = 1
                             THEN <<CounterJsx>> ELSE <<>>)
                         \o (IF ReflectGet(e, <<StateOf(i), "loop">>) = 1
                             THEN <<LooperJsx>> ELSE <<>>)
                         \o (IF ReflectGet(e, <<StateOf(i), "async">>) = 1
                             THEN <<SuspenseJsx>> ELSE <<>>)]
      [] componentFn(i) = "Looper" ->
            \* state.n = 1 - state.n; return <div>{state.n}</div>
            LET Flip(e1) == ProxySet(e1, <<StateOf(i), "n">>,
                                     1 - ReflectGet(e1, <<StateOf(i), "n">>))
                Shown(e2) == [e |-> Read(e2, <<StateOf(i), "n">>),
                              out |-> ReflectGet(e2, <<StateOf(i), "n">>), jsx |-> <<>>]
            IN  Shown(Flip(Read([e EXCEPT !.renderDepth =
                                              IF @ <= MaxRenderDepth THEN @ + 1 ELSE @],
                                <<StateOf(i), "n">>)))
      [] componentFn(i) = "Banner" -> [e |-> e, out |-> NoValue, jsx |-> <<>>]
      [] componentFn(i) = "Counter" ->
            \* the render function finds that the operations of the setup phase
            \* throw when called from it
            [e |-> Probe(Read(e, <<StateOf(i), "n">>), ApiOps, "render"),
             out |-> ReflectGet(e, <<StateOf(i), "n">>), jsx |-> <<LeafJsx>>]
      [] componentFn(i) = "Leaf" ->
            \* <div>{v.x} {v.y} {t.x}</div>
            LET v == e.instance[i].view["V"]
                t == e.instance[i].view["T"]
            IN  [e |-> ViewGet(ViewGet(ViewGet(e, v, "x"), v, "y"), t, "x"),
                 out |-> LeafText(ViewValue(e, v, "x"), ViewValue(e, v, "y"),
                                  ViewValue(e, t, "x")),
                 jsx |-> <<>>]
      [] componentFn(i) = "Suspense" ->
            \* isPending = state.pendingCount > 0; renderContexts.get(...) throws
            [e |-> Throw(Read(e, <<StateOf(i), "pendingCount">>),
                         "TypeError: Cannot read properties of undefined (reading 'get')"),
             out |-> IF ReflectGet(e, <<StateOf(i), "pendingCount">>) > 0 THEN 1 ELSE 0,
             jsx |-> IF ReflectGet(e, <<StateOf(i), "pendingCount">>) > 0
                     THEN <<>> ELSE <<AsyncJsx>>]
      [] componentFn(i) = "Async" ->
            [e |-> Read(Read(e, <<StateOf(i), "user">>), <<StateOf(i), "posts">>),
             out |-> NoValue, jsx |-> <<>>]
      [] componentFn(i) = "Item" ->
            LET e1 == Read(e, <<PropsOf(i), "id">>)
                e2 == Read(e1, <<StateOf(i), "n">>)
            IN  [e |-> e2, out |-> ReflectGet(e, <<StateOf(i), "n">>), jsx |-> <<>>]
      [] OTHER ->
            \* renderCount++; return <div>{props.count}</div>
            [e |-> Read([e EXCEPT !.renderCount = Bump(@)], <<PropsOf(i), "count">>),
             out |-> ReflectGet(e, <<PropsOf(i), "count">>), jsx |-> <<>>]

(***************************************************************************)
(* createComponentInstance(componentFn, props, explicitKey)                *)
(***************************************************************************)
createComponentInstance(e, i, props) ==
    LET previousSetupComponent == e.currentSetupComponent
        Begin(e1) == [e1 EXCEPT !.currentComponentContext = i,
                                !.instance[i] = [NoInstance EXCEPT
                                                    !.exists = TRUE,
                                                    !.parent = e1.currentRenderingComponent],
                                !.currentSetupComponent = i]
        Finish(e3) == [e3 EXCEPT !.currentSetupComponent = previousSetupComponent,
                                 !.currentComponentContext = None,
                                 !.setupCount[i] = Bump(@),
                                 !.setup = Append(@, i)]
    IN  Finish(ComponentBody(Begin(createReactiveProxy(e, PropsOf(i), props)), i))

(***************************************************************************)
(* Snabbdom's patch over the children of a host vnode.  The children are   *)
(* thunks of components; a thunk's own children are those of the           *)
(* _cachedVNode of its instance, copied by the thunk's init and prepatch.  *)
(***************************************************************************)
\* thunk('component', compositeKey ?? `${fnId}`, fn, [instance, cacheKey]);
\* custom: the thunk carries the wrapped init hook and the insert and destroy hooks.
Thunk(fnId, key, i, custom) ==
    [sel |-> "component", key |-> <<fnId, key>>, inst |-> i, custom |-> custom]

\* An entry of a children array that a move has set to undefined.
NullVNode == [sel |-> "null", key |-> <<"", NoKey>>, inst |-> None, custom |-> FALSE]

IsNull(v) == v.sel = "null"

\* sameVnode(vnode1, vnode2)
sameVnode(v1, v2) == v1.key = v2.key /\ v1.sel = v2.sel

\* The callbacks invoked from the last to the first.
RECURSIVE runCallbacksReversed(_, _, _)
runCallbacksReversed(e, i, cbs) ==
    IF cbs = <<>> THEN e
    ELSE runCallbacksReversed(RunCallback(e, i, cbs[Len(cbs)]), i, SubSeq(cbs, 1, Len(cbs) - 1))

\* callbacks.forEach(cb => cb())
RECURSIVE runCallbacks(_, _, _)
runCallbacks(e, i, cbs) ==
    IF cbs = <<>> THEN e
    ELSE runCallbacks(RunCallback(e, i, Head(cbs)), i, Tail(cbs))

\* cleanupComponent that leaves the cleanup callbacks out.
cleanupComponentSilent(e, i) ==
    LET Dispose0(e1) == IF e1.instance[i].dispose THEN Disposer(e1, i) ELSE e1
    IN  Dispose0([e EXCEPT !.instance[i].children = [ck \in CacheKeys |-> None]])

(***************************************************************************)
(* cleanupComponent(instance)                                              *)
(***************************************************************************)
cleanupComponent(e, i) ==
    LET cbs == e.instance[i].cleanupCallbacks
        Count(e2) == IF cbs # <<>>
                     THEN [e2 EXCEPT !.cleanupCount[i] = Bump(@), !.cleaned = Append(@, i)]
                     ELSE e2
        Dispose0(e3) == IF e3.instance[i].dispose THEN Disposer(e3, i) ELSE e3
    IN  Dispose0(Count(runCallbacks(
            [e EXCEPT !.instance[i].children = [ck \in CacheKeys |-> None]], i, cbs)))

\* insertHook that runs the mount callbacks whenever the element is inserted.
insertHookAlways(e, i) ==
    LET cbs == e.instance[i].mountCallbacks
        Count(e2) == IF cbs # <<>>
                     THEN [e2 EXCEPT !.mountCount[i] = Bump(@), !.mounted = Append(@, i)]
                     ELSE e2
    IN  Count(runCallbacks([e EXCEPT !.instance[i].hostElement = TRUE,
                                     !.instance[i].hasMounted = TRUE], i, cbs))

\* insertHook(vnode) of the thunk of instance i
insertHook(e, i) ==
    LET cbs == e.instance[i].mountCallbacks
        Count(e2) == IF cbs # <<>>
                     THEN [e2 EXCEPT !.mountCount[i] = Bump(@), !.mounted = Append(@, i)]
                     ELSE e2
    IN  IF ~e.instance[i].hasMounted
        THEN Count(runCallbacks([e EXCEPT !.instance[i].hostElement = TRUE,
                                          !.instance[i].hasMounted = TRUE], i, cbs))
        ELSE [e EXCEPT !.instance[i].hostElement = TRUE]

\* The insert hooks of the inserted vnode queue, run when a patch ends.
RECURSIVE runInsertHooks(_, _)
runInsertHooks(e, queue) ==
    IF queue = <<>> THEN [e EXCEPT !.insertedVnodeQueue = <<>>]
    ELSE runInsertHooks(insertHook(e, Head(queue).inst), Tail(queue))

\* createElm(vnode, insertedVnodeQueue): the thunk's init hook copies the
\* cached vnode (the wrapped init also installs the insert and destroy hooks
\* in the copied data), the children are created, and a vnode with an insert
\* hook is queued after its children.
RECURSIVE createElm(_, _)
RECURSIVE createChildren(_, _)
createChildren(e, ch) ==
    IF ch = <<>> THEN e
    ELSE createChildren(IF IsNull(Head(ch)) THEN e ELSE createElm(e, Head(ch)), Tail(ch))

createElm(e, v) ==
    LET i == v.inst
        Children(e1) == createChildren(e1, e1.instance[i].cachedVNode.children)
        Queue(e2) == IF e2.instance[i].hooked
                     THEN [e2 EXCEPT !.instance[i].shown = e2.instance[i].cachedVNode.out,
                                     !.insertedVnodeQueue = Append(@, v)]
                     ELSE [e2 EXCEPT !.instance[i].shown = e2.instance[i].cachedVNode.out]
    IN  Queue(Children(IF v.custom THEN [e EXCEPT !.instance[i].hooked = TRUE] ELSE e))

\* invokeDestroyHook(vnode): the destroy hook, then the vnode's children.
RECURSIVE invokeDestroyHook(_, _)
RECURSIVE destroyChildren(_, _)
destroyChildren(e, ch) ==
    IF ch = <<>> THEN e
    ELSE destroyChildren(IF IsNull(Head(ch)) THEN e ELSE invokeDestroyHook(e, Head(ch)),
                         Tail(ch))

invokeDestroyHook(e, v) ==
    LET Children(e1) == destroyChildren(e1, e1.instance[v.inst].cachedVNode.children)
    IN  Children(IF e.instance[v.inst].hooked THEN cleanupComponent(e, v.inst) ELSE e)

RECURSIVE addVnodes(_, _, _, _)
addVnodes(e, vnodes, startIdx, endIdx) ==
    IF startIdx > endIdx THEN e
    ELSE addVnodes(IF IsNull(vnodes[startIdx]) THEN e ELSE createElm(e, vnodes[startIdx]),
                   vnodes, startIdx + 1, endIdx)

RECURSIVE removeVnodes(_, _, _, _)
removeVnodes(e, vnodes, startIdx, endIdx) ==
    IF startIdx > endIdx THEN e
    ELSE removeVnodes(IF IsNull(vnodes[startIdx]) THEN e
                      ELSE invokeDestroyHook(e, vnodes[startIdx]),
                      vnodes, startIdx + 1, endIdx)

\* patchVnode that replaces the element: the old vnode is destroyed and the
\* new one created.
patchVnodeReplace(e, oldVnode, vnode) == createElm(invokeDestroyHook(e, oldVnode), vnode)

\* patchVnode(oldVnode, vnode) of two thunks that are the same vnode: the keys
\* of the application's siblings differ, so both belong to one instance; the
\* prepatch hook copies the cached vnode and both then hold the same children
\* array, which is not compared further.
patchVnode(e, oldVnode, vnode) == e

\* createKeyToOldIdx(children, beginIdx, endIdx)[key], 0 when the key is missing
createKeyToOldIdx(children, beginIdx, endIdx, key) ==
    LET found == {j \in beginIdx..endIdx : ~IsNull(children[j]) /\ children[j].key = key}
    IN  IF found = {} THEN 0 ELSE CHOOSE j \in found : \A j2 \in found : j2 <= j

(***************************************************************************)
(* updateChildren(parentElm, oldCh, newCh, insertedVnodeQueue): the engine *)
(* after the hooks it invokes and the old array, in which a moved entry is *)
(* set to undefined.  map is the range the key map was made from, once it  *)
(* has been made.                                                          *)
(***************************************************************************)
RECURSIVE updateChildren(_, _, _, _, _, _, _, _)
updateChildren(e, oldCh, newCh, oldStartIdx, oldEndIdx, newStartIdx, newEndIdx, map) ==
    IF oldStartIdx <= oldEndIdx /\ newStartIdx <= newEndIdx
    THEN LET oldStartVnode == oldCh[oldStartIdx]
             oldEndVnode == oldCh[oldEndIdx]
             newStartVnode == newCh[newStartIdx]
             newEndVnode == newCh[newEndIdx]
         IN  IF IsNull(oldStartVnode)
             THEN updateChildren(e, oldCh, newCh, oldStartIdx + 1, oldEndIdx,
                                 newStartIdx, newEndIdx, map)
             ELSE IF IsNull(oldEndVnode)
             THEN updateChildren(e, oldCh, newCh, oldStartIdx, oldEndIdx - 1,
                                 newStartIdx, newEndIdx, map)
             ELSE IF sameVnode(oldStartVnode, newStartVnode)
             THEN updateChildren(patchVnode(e, oldStartVnode, newStartVnode), oldCh, newCh,
                                 oldStartIdx + 1, oldEndIdx, newStartIdx + 1, newEndIdx, map)
             ELSE IF sameVnode(oldEndVnode, newEndVnode)
             THEN updateChildren(patchVnode(e, oldEndVnode, newEndVnode), oldCh, newCh,
                                 oldStartIdx, oldEndIdx - 1, newStartIdx, newEndIdx - 1, map)
             ELSE IF sameVnode(oldStartVnode, newEndVnode)
             THEN updateChildren(patchVnode(e, oldStartVnode, newEndVnode), oldCh, newCh,
                                 oldStartIdx + 1, oldEndIdx, newStartIdx, newEndIdx - 1, map)
             ELSE IF sameVnode(oldEndVnode, newStartVnode)
             THEN updateChildren(patchVnode(e, oldEndVnode, newStartVnode), oldCh, newCh,
                                 oldStartIdx, oldEndIdx - 1, newStartIdx + 1, newEndIdx, map)
             ELSE LET oldKeyToIdx == IF map = <<>> THEN <<oldStartIdx, oldEndIdx>> ELSE map
                      idxInOld == createKeyToOldIdx(oldCh, oldKeyToIdx[1], oldKeyToIdx[2],
                                                    newStartVnode.key)
                  IN  IF idxInOld = 0 \/ oldCh[idxInOld].sel # newStartVnode.sel
                      THEN updateChildren(createElm(e, newStartVnode), oldCh, newCh,
                                          oldStartIdx, oldEndIdx, newStartIdx + 1, newEndIdx,
                                          oldKeyToIdx)
                      ELSE updateChildren(patchVnode(e, oldCh[idxInOld], newStartVnode),
                                          [oldCh EXCEPT ![idxInOld] = NullVNode], newCh,
                                          oldStartIdx, oldEndIdx, newStartIdx + 1, newEndIdx,
                                          oldKeyToIdx)
    ELSE [e |-> removeVnodes(addVnodes(e, newCh, newStartIdx, newEndIdx),
                             oldCh, oldStartIdx, oldEndIdx),
          oldCh |-> oldCh]

\* patch(oldVnode, vnode) of two host vnodes of instance i, which are the same
\* vnode: the children are updated and the queued insert hooks run.
patch(e, i, vnode) ==
    LET oldVnode == e.instance[i].currentVNode
        Done(r, e1) ==
            [e1 EXCEPT !.instance[i].currentVNode = vnode,
                       !.instance[i].shared = FALSE,
                       !.instance[i].cachedVNode.children =
                            IF e.instance[i].shared THEN r.oldCh ELSE @,
                       !.instance[i].shown = IF oldVnode.out # vnode.out THEN vnode.out ELSE @]
        Hooks(r) == Done(r, runInsertHooks(r.e, r.e.insertedVnodeQueue))
    IN  Hooks(updateChildren([e EXCEPT !.insertedVnodeQueue = <<>>],
                             oldVnode.children, vnode.children,
                             1, Len(oldVnode.children), 1, Len(vnode.children), <<>>))

(***************************************************************************)
(* Rendering.  runObserver, renderComponent and jsxToVNode call each other:*)
(* a render pass creates the instances it meets for the first time, and    *)
(* creating an instance runs its render observer at once.                  *)
(***************************************************************************)
NoPlan == [reads |-> {}, obj |-> "no", eff |-> [t |-> "none", v |-> 0, o |-> None]]

\* Object.keys(componentProps).length > 0, found false for every props object.
HasPropsNever(props) == FALSE

\* Object.keys(componentProps).length > 0
HasProps(props) == \E k \in DOMAIN props : props[k] # Absent

RECURSIVE runObserver(_, _, _)
RECURSIVE renderComponent(_, _)
RECURSIVE jsxToVNode(_, _)

\* instance.render() and jsxToVNode(jsx) with the instance as the current
\* rendering component: the engine afterwards and h('component', data, childVNodes).
RenderPass(e, i) ==
    LET previousRenderingComponent == e.currentRenderingComponent
        Result(r, c) ==
            [e |-> [c.e EXCEPT !.currentRenderingComponent = previousRenderingComponent],
             vnode |-> [children |-> c.vnodes, out |-> r.out]]
        Convert(r) == Result(r, jsxToVNode(r.e, r.jsx))
    IN  Convert(RenderFn([e EXCEPT !.instance[i].childPosition = 0,
                                   !.currentRenderingComponent = i], i))

\* renderComponentContent(instance, cacheKey)
renderComponentContent(e, i) == RenderPass(e, i)

\* The function handed to observer() for instance i.
RenderObserver(e, i) ==
    LET e0 == [e EXCEPT !.lastRead[i] = {}, !.fresh[i] = TRUE, !.ran = Append(@, i)]
        \* observableRender(): the first run, or a run before the insert hook
        First(r) == IF r.e.thrown # None THEN r.e
                    ELSE [r.e EXCEPT !.instance[i].cachedVNode = r.vnode,
                                     !.cachedWrites[i] = Bump(@),
                                     !.instance[i].currentVNode = r.vnode,
                                     !.instance[i].shared = TRUE]
        Again(r) == IF r.e.thrown # None THEN r.e ELSE patch(r.e, i, r.vnode)
    IN  IF ~e.instance[i].hostElement
        THEN First(renderComponentContent(e0, i))
        ELSE Again(RenderPass(e0, i))

\* instance.dispose = observer(() => { ... }) and the thunk that is returned
ObserveInstance(e, jsx, i) ==
    LET Disposable(o) == IF o.thrown # None THEN o
                         ELSE [o EXCEPT !.instance[i].dispose = TRUE]
    IN  [e |-> Disposable(runObserver([e EXCEPT !.created = @ \cup {i},
                                                !.isDisposed[i] = FALSE], i, NoPlan)),
         vnode |-> Thunk(jsx.type, jsx.key, i, TRUE)]

\* The reuse of an instance with its content rendered anew and cached.
ReuseThunkRerender(e, jsx, i) ==
    LET Fresh(r) == [e |-> [r.e EXCEPT !.instance[i].cachedVNode = r.vnode,
                                       !.cachedWrites[i] = Bump(@)],
                     vnode |-> Thunk(jsx.type, jsx.key, i, FALSE)]
    IN  Fresh(renderComponentContent(e, i))

\* if (instance.dispose) return thunk(..., () => instance._cachedVNode, [instance, cacheKey])
ReuseThunk(e, jsx, i) == [e |-> e, vnode |-> Thunk(jsx.type, jsx.key, i, FALSE)]

\* renderComponent that never looks into the parent's children map.
renderComponentNoCache(e, jsx) ==
    LET parent == e.currentRenderingComponent
        keyed == jsx.key # NoKey
        cacheKey == IF keyed THEN <<"key", jsx.type, jsx.key>>
                    ELSE <<"pos", jsx.type, e.instance[parent].childPosition>>
        i == IF parent = None THEN Root ELSE InstanceName(cacheKey)
        Advance(e1) == IF parent # None /\ ~keyed
                       THEN [e1 EXCEPT !.instance[parent].childPosition = @ + 1] ELSE e1
        Register(c) == IF parent # None
                       THEN [c EXCEPT !.instance[parent].children[cacheKey] = i] ELSE c
    IN  ObserveInstance(Register(createComponentInstance(Advance(e), i, jsx.props)), jsx, i)

(***************************************************************************)
(* renderComponent(type, props)                                            *)
(***************************************************************************)
renderComponent(e, jsx) ==
    LET parent == e.currentRenderingComponent
        fnId == jsx.type
        keyed == jsx.key # NoKey
        found == IF parent = None THEN None
                 ELSE e.instance[parent].children[
                          IF keyed THEN <<"key", fnId, jsx.key>>
                          ELSE <<"pos", fnId, e.instance[parent].childPosition>>]
        Advance(e1) == IF parent # None /\ ~keyed
                       THEN [e1 EXCEPT !.instance[parent].childPosition = @ + 1] ELSE e1
        CacheKey(e2) == IF keyed THEN <<"key", fnId, jsx.key>>
                        ELSE <<"pos", fnId, e2.instance[parent].childPosition - 1>>
        Inst(e2) == IF found # None THEN found
                    ELSE IF parent = None THEN Root ELSE InstanceName(CacheKey(e2))
        Register(c, e2) == IF parent # None /\ c.thrown = None
                           THEN [c EXCEPT !.instance[parent].children[CacheKey(e2)] = Inst(e2)]
                           ELSE c
        Create(e2) == IF found = None
                      THEN Register(createComponentInstance(e2, Inst(e2), jsx.props), e2)
                      ELSE e2
        Return(e3, i) == IF e3.thrown # None THEN [e |-> e3, vnode |-> NullVNode]
                         ELSE IF e3.instance[i].dispose
                         THEN ReuseThunk(e3, jsx, i)
                         ELSE ObserveInstance(e3, jsx, i)
        WithInstance(e2) == Return(Create(e2), Inst(e2))
    IN  WithInstance(Advance(IF found # None /\ HasProps(jsx.props)
                             THEN updateProps(e, PropsOf(found), PropKeys(fnId), jsx.props)
                             ELSE e))

\* render(jsx, container) for a component whose component function throws:
\* jsxToVNode(jsx) is renderComponent without a parent, which has no children
\* map to look into and calls createComponentInstance; the error leaves
\* renderComponent before the observer is made and render before the patch.
renderThrowing(e, jsx) == createComponentInstance(e, InnerInst, jsx.props)

\* renderComponent(App) for an App whose component function, between its
\* createState calls and its context.set calls, does
\*   try { render(<Inner/>, other) } catch (err) { ... }
\*   try { onMount(late) } catch (err) { ... }
\* The parts of createComponentInstance are those of the definition above.
renderNesting(e) ==
    LET i == Root
        previousSetupComponent == e.currentSetupComponent
        Begin(e1) == [e1 EXCEPT !.currentComponentContext = i,
                                !.instance[i] = [NoInstance EXCEPT
                                                    !.exists = TRUE,
                                                    !.parent = e1.currentRenderingComponent],
                                !.currentSetupComponent = i]
        Inner(e2) == Catch(renderThrowing(AppState(e2, i), InnerJsx), "inner")
        Body(e2) == AppContexts(Catch(onMount(Inner(e2), "late"), "setup"))
        Finish(e3) == [e3 EXCEPT !.currentSetupComponent = previousSetupComponent,
                                 !.currentComponentContext = None,
                                 !.setupCount[i] = Bump(@),
                                 !.setup = Append(@, i)]
        Return(e4) == IF e4.thrown # None THEN [e |-> e4, vnode |-> NullVNode]
                      ELSE ObserveInstance(e4, AppJsx, i)
    IN  Return(Finish(Body(Begin(createReactiveProxy(e, PropsOf(i), AppJsx.props)))))

\* jsx.map(jsxToVNode).flat() over the elements a render function returns
jsxToVNode(e, jsx) ==
    IF jsx = <<>> THEN [e |-> e, vnodes |-> <<>>]
    ELSE LET Cons(r, rest) == [e |-> rest.e, vnodes |-> <<r.vnode>> \o rest.vnodes]
             Rest(r) == IF r.e.thrown # None THEN [e |-> r.e, vnodes |-> <<>>]
                        ELSE Cons(r, jsxToVNode(r.e, Tail(jsx)))
         IN  Rest(renderComponent(e, Head(jsx)))

\* The body of a listener: a render observer or a callback following a plan.
ObserverBody(e, o, plan) ==
    IF o \in Insts THEN RenderObserver(e, o) ELSE RunBody(e, o, plan)

\* runObserver without the isDisposed check.
runObserverUnchecked(e, o, plan) ==
    LET e1 == clearObserverSubscriptions(e, o)
        previousObserver == e1.currentObserver
        e2 == ObserverBody([e1 EXCEPT !.currentObserver = o], o, plan)
    IN  [e2 EXCEPT !.currentObserver = previousObserver]

\* runObserver that leaves an enclosing tracked run as the current observer.
runObserverOuter(e, o, plan) ==
    IF e.isDisposed[o] THEN e
    ELSE LET e1 == clearObserverSubscriptions(e, o)
             previousObserver == e1.currentObserver
             e2 == ObserverBody([e1 EXCEPT !.currentObserver =
                                              IF previousObserver # None
                                              THEN previousObserver ELSE o],
                                o, plan)
         IN  [e2 EXCEPT !.currentObserver = previousObserver]

(***************************************************************************)
(* runObserver of observer(fn)                                             *)
(***************************************************************************)
runObserver(e, o, plan) ==
    IF e.isDisposed[o] THEN e
    ELSE LET e1 == clearObserverSubscriptions(e, o)
             previousObserver == e1.currentObserver
             e2 == ObserverBody([e1 EXCEPT !.currentObserver = o], o, plan)
         IN  [e2 EXCEPT !.currentObserver = previousObserver]

NoPartial == [k \in KeySet |-> Absent]

\* The partials that keep p.o as it is.
CorePartials == {np \in [KeySet -> Nums \cup {Undef, ObjN, Absent}] :
                    /\ np["o"] = ObjN
                    /\ \A k \in {"a", "b"} : np[k] \in KeyDom(k) \cup {Undef, Absent}}

(***************************************************************************)
(* Initial state: createProps({a: 0, b: 0, o: {x: 0}}), nothing observed.  *)
(***************************************************************************)
Init ==
    /\ target = [pr \in AllProps |-> IF pr = <<"p", "o">> THEN ObjN
                                      ELSE IF pr \in Props THEN 0 ELSE Absent]
    /\ listeners = [pr \in AllProps |-> <<>>]
    /\ observerSubscriptions = [o \in Listeners |-> {}]
    /\ isDisposed = [o \in Listeners |-> FALSE]
    /\ created = {}
    /\ currentObserver = None
    /\ pendingNotifications = <<>>
    /\ isNotificationScheduled = FALSE
    /\ microtasks = <<>>
    /\ flushing = <<>>
    /\ stateMetadata = {"p"}
    /\ nestedProxyCache = [ow \in {"p", "n"} |-> {}]
    /\ inTurn = TRUE
    /\ fresh = [o \in Listeners |-> TRUE]
    /\ ranInFlush = <<>>
    /\ turnWrites = 0
    /\ lastRead = [o \in Listeners |-> {}]
    /\ lastGet = NoResult
    /\ lastOp = [op |-> "init", o |-> None]
    /\ lastRan = <<>>
    /\ lastArg = NoPartial
    /\ instance = [i \in Insts |-> NoInstance]
    /\ currentRenderingComponent = None
    /\ currentSetupComponent = None
    /\ currentComponentContext = None
    /\ rootVNode = "none"
    /\ event = "none"
    /\ renderCount = 0
    /\ setupCount = [i \in Insts |-> 0]
    /\ mountCount = [i \in Insts |-> 0]
    /\ cleanupCount = [i \in Insts |-> 0]
    /\ cachedWrites = [i \in Insts |-> 0]
    /\ renderDepth = 0
    /\ promise = [p \in Promises |-> [status |-> "pending", cached |-> FALSE,
                                      cache |-> "pending",
                                      reactions |-> <<>>]]
    /\ lastSetup = <<>>
    /\ lastMounted = <<>>
    /\ lastCleaned = <<>>
    /\ lastCalls = <<>>
    /\ lastErrors = <<>>

Op(op, o) == [op |-> op, o |-> o]

\* One more write operation of this turn that changed a value.
CountWrite(e) ==
    IF e.target # target /\ e.turnWrites < MaxWrites
    THEN [e EXCEPT !.turnWrites = @ + 1] ELSE e

\* The code paths each specification lets a callback take.
CorePlans == {pl \in Plans : pl.obj = "no" /\ pl.eff.t # "throw"}
ThrowPlans == {pl \in Plans : pl.obj = "no" /\ pl.eff.t \in {"none", "throw"}}
PropsPlans == {pl \in Plans : pl.obj = "no" /\ pl.eff.t = "none"}
NestedPlans == {pl \in Plans : pl.reads = {} /\ pl.eff.t = "none"}

(***************************************************************************)
(* Steps of synchronous application code (an event handler, a test body).  *)
(***************************************************************************)
\* observer(fn): the first run happens at once.
CreateObserver(o, plan) ==
    /\ inTurn /\ o \notin created
    /\ plan.eff.t = "none"
    /\ Commit(runObserver([E EXCEPT !.created = @ \cup {o}], o, plan))
    /\ lastOp' = Op("observer", o)
    /\ UNCHANGED inTurn

\* Calling the disposer.
Dispose(o) ==
    /\ inTurn /\ o \in created
    /\ Commit(Disposer(E, o))
    /\ lastOp' = Op("dispose", o)
    /\ UNCHANGED inTurn

\* p[k] = v
Write(k, v) ==
    /\ inTurn
    /\ Commit(CountWrite(ProxySet(E, <<"p", k>>, v)))
    /\ lastOp' = Op(IF ReflectGet(E, <<"p", k>>) = v THEN "setSame" ELSE "set", None)
    /\ UNCHANGED inTurn

\* p.o.x = v, when p.o holds an object: a read of p.o, then a write through
\* whatever the read returned.
WriteNested(v) ==
    /\ inTurn
    /\ IsObject(ReflectGet(E, <<"p", "o">>))
    /\ LET got == ProxyGetValue(E, <<"p", "o">>)
           e1 == ProxyGet(E, <<"p", "o">>)
       IN  Commit(CountWrite(IF got[1] = "proxy"
                             THEN ProxySet(e1, <<"n", "x">>, v)
                             ELSE IF ReflectGet(e1, <<"n", "x">>) # v
                                  THEN Store(e1, <<"n", "x">>, v) ELSE e1))
    /\ lastOp' = Op("setNested", None)
    /\ UNCHANGED inTurn

\* An untracked read of p.o.
ReadObj ==
    /\ inTurn
    /\ Commit([ProxyGet(E, <<"p", "o">>) EXCEPT !.lastGet = ProxyGetValue(E, <<"p", "o">>)])
    /\ lastOp' = Op("get", None)
    /\ UNCHANGED inTurn

UpdateProps(np) ==
    /\ inTurn
    /\ Commit([CountWrite(updateProps(E, "p", Keys, np)) EXCEPT !.arg = np])
    /\ lastOp' = Op("updateProps", None)
    /\ UNCHANGED inTurn

\* The synchronous code returns to the host.
EndTurn ==
    /\ inTurn
    /\ inTurn' = FALSE
    /\ lastOp' = Op("endTurn", None)
    /\ lastRan' = <<>>
    /\ lastArg' = NoPartial
    /\ lastSetup' = <<>> /\ lastMounted' = <<>> /\ lastCleaned' = <<>>
    /\ lastCalls' = <<>> /\ lastErrors' = <<>>
    /\ UNCHANGED treeVars
    /\ UNCHANGED <<target, listeners, observerSubscriptions, isDisposed, created,
                   currentObserver, pendingNotifications, isNotificationScheduled,
                   microtasks, flushing, stateMetadata, nestedProxyCache,
                   fresh, ranInFlush, turnWrites, lastRead, lastGet>>

\* The host starts the next task once the microtask queue is empty.
StartTurn ==
    /\ ~inTurn /\ microtasks = <<>> /\ flushing = <<>>
    /\ inTurn' = TRUE
    /\ turnWrites' = 0
    /\ lastOp' = Op("startTurn", None)
    /\ lastRan' = <<>>
    /\ lastArg' = NoPartial
    /\ lastSetup' = <<>> /\ lastMounted' = <<>> /\ lastCleaned' = <<>>
    /\ lastCalls' = <<>> /\ lastErrors' = <<>>
    /\ renderCount' = 0
    /\ UNCHANGED <<instance, currentRenderingComponent, currentSetupComponent,
                   currentComponentContext, rootVNode, event, setupCount, mountCount,
                   cleanupCount, cachedWrites, renderDepth, promise>>
    /\ UNCHANGED <<target, listeners, observerSubscriptions, isDisposed, created,
                   currentObserver, pendingNotifications, isNotificationScheduled,
                   microtasks, flushing, stateMetadata, nestedProxyCache,
                   fresh, ranInFlush, lastRead, lastGet>>

\* The flush microtask that copies and clears the pending set and leaves
\* isNotificationScheduled set.
FlushBeginKeepFlag ==
    /\ ~inTurn /\ flushing = <<>>
    /\ microtasks # <<>> /\ Head(microtasks).type = "flush"
    /\ Commit([E EXCEPT !.flushing = pendingNotifications,
                        !.pendingNotifications = <<>>,
                        !.microtasks = Tail(@),
                        !.ranInFlush = <<>>])
    /\ lastOp' = Op("flush", None)
    /\ UNCHANGED inTurn

(***************************************************************************)
(* The flush microtask of scheduleNotification: the pending set is copied  *)
(* and cleared, then each listener of the copy is invoked in turn.         *)
(***************************************************************************)
FlushBegin ==
    /\ ~inTurn /\ flushing = <<>>
    /\ microtasks # <<>> /\ Head(microtasks).type = "flush"
    /\ Commit([E EXCEPT !.flushing = pendingNotifications,
                        !.pendingNotifications = <<>>,
                        !.isNotificationScheduled = FALSE,
                        !.microtasks = Tail(@),
                        !.ranInFlush = <<>>])
    /\ lastOp' = Op("flush", None)
    /\ UNCHANGED inTurn

\* listeners.forEach(listener => listener()), one listener.  An error the
\* listener throws leaves forEach and the microtask: the listeners that
\* follow in the copy are not invoked, the host reports the error.
FlushStep(plan) ==
    /\ ~inTurn /\ flushing # <<>>
    /\ LET Uncaught(e1) == IF e1.thrown # None
                           THEN [Catch(e1, "uncaught") EXCEPT !.flushing = <<>>]
                           ELSE e1
           Done(e1) == Commit([e1 EXCEPT !.ranInFlush = @ \o e1.ran])
       IN  Done(Uncaught(runObserver([E EXCEPT !.flushing = Tail(@)], Head(flushing), plan)))
    /\ lastOp' = Op("step", Head(flushing))
    /\ UNCHANGED inTurn

\* The container and its callbacks: writes, disposal, batched flushes.
Next ==
    \/ \E o \in Observers, plan \in CorePlans : CreateObserver(o, plan)
    \/ \E o \in Observers : Dispose(o)
    \/ \E k \in {"a", "b"} : \E v \in KeyDom(k) : Write(k, v)
    \/ EndTurn
    \/ StartTurn
    \/ FlushBegin
    \/ \E plan \in CorePlans : FlushStep(plan)

Spec == Init /\ [][Next]_vars

\* Callbacks that throw when a flush invokes them.
NextThrow ==
    \/ \E o \in Observers, plan \in CorePlans : CreateObserver(o, plan)
    \/ \E k \in {"a", "b"} : \E v \in KeyDom(k) : Write(k, v)
    \/ EndTurn
    \/ StartTurn
    \/ FlushBegin
    \/ \E plan \in ThrowPlans : FlushStep(plan)

SpecThrow == Init /\ [][NextThrow]_vars

\* A props container: bulk updates next to single writes.
NextProps ==
    \/ \E o \in Observers, plan \in PropsPlans : CreateObserver(o, plan)
    \/ \E k \in {"a", "b"} : \E v \in KeyDom(k) : Write(k, v)
    \/ \E np \in CorePartials : UpdateProps(np)
    \/ EndTurn
    \/ StartTurn
    \/ FlushBegin
    \/ \E plan \in PropsPlans : FlushStep(plan)

SpecProps == Init /\ [][NextProps]_vars

\* A container that holds a plain object: reads and writes through p.o.
NextNested ==
    \/ \E o \in Observers, plan \in NestedPlans : CreateObserver(o, plan)
    \/ \E v \in KeyDom("o") : Write("o", v)
    \/ \E v \in Nums : WriteNested(v)
    \/ ReadObj
    \/ EndTurn
    \/ StartTurn
    \/ FlushBegin
    \/ \E plan \in NestedPlans : FlushStep(plan)

SpecNested == Init /\ [][NextNested]_vars

(***************************************************************************)
(* The component tree: render(<App/>, container), then event handlers that *)
(* write the root's items and count and a rendered item's local state.  An *)
(* event handler is a turn of its own: the host runs it when it is idle,   *)
(* and the microtasks the handler queued run when it returns.              *)
(***************************************************************************)
\* The lists the root's state starts with: none of the items, or all of them.
InitialLists == {l \in Lists : l = <<>> \/ l = [j \in 1..NumKeys |-> j]}

\* render(jsx, container): jsxToVNode(jsx), then patch(tempDiv, vnode), which
\* creates the element of the root thunk and runs the insert hooks.
\* The microtasks that createSuspense queued run when render returns.  An
\* error thrown while the tree is built leaves render before the patch; the
\* caller catches it.
MountFrom(root) ==
    /\ inTurn /\ rootVNode = "none"
    /\ LET Mounted(e2) == Commit([e2 EXCEPT !.rootVNode = "mounted", !.event = "render"])
           Jobs(e1) == Mounted(RunJobs(e1, e1.jobs))
           Insert(e1) == Jobs(runInsertHooks(e1, e1.insertedVnodeQueue))
           Failed(e1) == Commit([Catch(e1, "caller") EXCEPT !.event = "render"])
           Create(r) == IF r.e.thrown # None THEN Failed(r.e)
                        ELSE Insert(createElm(r.e, r.vnode))
       IN  Create(root)
    /\ lastOp' = Op("render", None)
    /\ inTurn' = FALSE

\* The application with the given initial state.
MountWith(l, show, async, loop, banner) ==
    MountFrom(renderComponent([E EXCEPT !.initialItems = l, !.initialShow = show,
                                        !.initialAsync = async, !.initialLoop = loop,
                                        !.initialBanner = banner],
                              AppJsx))

\* The application whose component function renders <Inner/> into a container
\* of its own and calls onMount afterwards.
MountNested(l) == MountFrom(renderNesting([E EXCEPT !.initialItems = l]))

\* The application without <Looper/> and <Banner/>.
Mount(l, show, async) == MountWith(l, show, async, 0, 0)

\* The application with or without <Banner/> in front of <Child/>.
MountBanner(banner) == MountWith(<<>>, 0, 0, 0, banner)

\* The application with <Looper/>, whose render function writes what it reads.
MountLoop == MountWith(<<>>, 0, 0, 1, 0)

\* The application without <Suspense>.
RenderApp(l, show) == Mount(l, show, 0)

\* The application with <Suspense fallback={...}><Async/></Suspense>.
MountAsync == Mount(<<>>, 0, 1)

\* The application with the given items in its list and <Counter/> left out.
Render(l) == RenderApp(l, 0)

\* The thunks of the host vnode that instance i patched last.
Rendered(i) ==
    {instance[i].currentVNode.children[j].inst : j \in 1..Len(instance[i].currentVNode.children)}

\* The host is idle and the application is mounted.
Idle == ~inTurn /\ microtasks = <<>> /\ flushing = <<>> /\ rootVNode = "mounted"

\* The engine as the event handler that assigns value to pr finds it.
AtEvent(name, pr, value) ==
    [E EXCEPT !.ranInFlush = <<>>, !.renderCount = 0,
              !.event = IF ReflectGet(E, pr) # value THEN name ELSE "same"]

\* An event handler that assigns value to pr.
Assign(name, pr, value) == Commit(ProxySet(AtEvent(name, pr, value), pr, value))

\* onClick={() => state.items = l} of the root
SetItems(l) ==
    /\ Idle
    /\ Assign("setItems", <<StateOf(Root), "items">>, ArrayOf(l))
    /\ lastOp' = Op("setItems", None)
    /\ UNCHANGED inTurn

\* onClick={() => state.count = v} of the root
SetCount(v) ==
    /\ Idle
    /\ Assign("setCount", <<StateOf(Root), "count">>, v)
    /\ lastOp' = Op("setCount", None)
    /\ UNCHANGED inTurn

\* onClick={() => state.n = v} of the item with key k
SetN(k, v) ==
    /\ Idle
    /\ ItemInst(k) \in Rendered(Root)
    /\ Assign("setN", <<StateOf(ItemInst(k)), "n">>, v)
    /\ lastOp' = Op("setN", ItemInst(k))
    /\ UNCHANGED inTurn

\* onClick={() => state.show = v} of the root
SetShow(v) ==
    /\ Idle
    /\ Assign("setShow", <<StateOf(Root), "show">>, v)
    /\ lastOp' = Op("setShow", None)
    /\ UNCHANGED inTurn

\* onClick={() => state.banner = v} of the root
SetBanner(v) ==
    /\ Idle
    /\ Assign("setBanner", <<StateOf(Root), "banner">>, v)
    /\ lastOp' = Op("setBanner", None)
    /\ UNCHANGED inTurn

\* onClick={() => state.bare = v} of the root
SetBare(v) ==
    /\ Idle
    /\ Assign("setBare", <<StateOf(Root), "bare">>, v)
    /\ lastOp' = Op("setBare", None)
    /\ UNCHANGED inTurn

\* onClick={() => state.n = v} of <Counter/>, while its element is displayed
SetCounterN(v) ==
    /\ Idle
    /\ CounterInst \in Rendered(Root)
    /\ Assign("setCounterN", <<StateOf(CounterInst), "n">>, v)
    /\ lastOp' = Op("setCounterN", CounterInst)
    /\ UNCHANGED inTurn

\* The function render() returns: patch(currentVNode, text('')) replaces the
\* root thunk, on which the destroy hooks are invoked, by an empty text.
Unmount ==
    /\ Idle
    /\ Commit([invokeDestroyHook([E EXCEPT !.ranInFlush = <<>>, !.renderCount = 0],
                                 Thunk("App", NoKey, Root, TRUE))
                  EXCEPT !.rootVNode = "unmounted", !.event = "unmount"])
    /\ lastOp' = Op("unmount", None)
    /\ UNCHANGED inTurn

\* The same function called again: the element of currentVNode has no parent
\* any more, so the patch creates the text and removes nothing.
UnmountAgain ==
    /\ ~inTurn /\ microtasks = <<>> /\ flushing = <<>> /\ rootVNode = "unmounted"
    /\ Commit([E EXCEPT !.ranInFlush = <<>>, !.renderCount = 0, !.event = "unmountAgain"])
    /\ lastOp' = Op("unmountAgain", None)
    /\ UNCHANGED inTurn

\* The published objects and their keys.
CtxProps == {<<CtxA, "x">>, <<CtxB, "x">>, <<CtxB, "y">>, <<CtxC, "x">>}

\* An event handler that assigns to a key of a published object.
SetCtx(pr, v) ==
    /\ Idle
    /\ HasKey(target, pr)
    /\ Assign("setCtx", pr, v)
    /\ lastOp' = Op("setCtx", pr[1])
    /\ UNCHANGED inTurn

\* An event handler that calls an operation of the setup phase in a try block.
CallOutside(op) ==
    /\ Idle
    /\ Commit(Catch(Api([E EXCEPT !.ranInFlush = <<>>, !.renderCount = 0,
                                  !.event = "call"], op), "event"))
    /\ lastOp' = Op("call", op)
    /\ UNCHANGED inTurn

\* resolve(value) of a promise of the application with the boundary, and the
\* reactions attached to it.
ResolvePromise(p) ==
    /\ ~inTurn /\ microtasks = <<>> /\ flushing = <<>>
    /\ setupCount[SuspenseInst] > 0
    /\ promise[p].status = "pending"
    /\ Commit(RunReactions([E EXCEPT !.promise[p].status = "resolved",
                                     !.ranInFlush = <<>>, !.renderCount = 0,
                                     !.event = "resolve"],
                           p, promise[p].reactions))
    /\ lastOp' = Op("resolve", p)
    /\ UNCHANGED inTurn

\* Both promises resolved by one event handler: their reactions run one after
\* the other before any flush.
ResolveAll ==
    /\ ~inTurn /\ microtasks = <<>> /\ flushing = <<>>
    /\ setupCount[SuspenseInst] > 0
    /\ \A p \in Promises : promise[p].status = "pending"
    /\ LET Posts(e1) == RunReactions(e1, "posts", promise["posts"].reactions)
           User(e0) == RunReactions(e0, "user", promise["user"].reactions)
       IN  Commit(Posts(User([E EXCEPT !.promise["user"].status = "resolved",
                                       !.promise["posts"].status = "resolved",
                                       !.ranInFlush = <<>>, !.renderCount = 0,
                                       !.event = "resolve"])))
    /\ lastOp' = Op("resolveAll", None)
    /\ UNCHANGED inTurn

\* A promise of the application that is settled before the application is
\* started: const user = Promise.resolve(1), or Promise.reject(error).
SettleEarly(p, status) ==
    /\ inTurn /\ rootVNode = "none"
    /\ \A i \in Insts : setupCount[i] = 0
    /\ promise[p].status = "pending"
    /\ Commit([E EXCEPT !.promise[p].status = status, !.event = "settle"])
    /\ lastOp' = Op("settle", p)
    /\ UNCHANGED inTurn

\* reject(error) of a promise of the application with the boundary, and the
\* reactions attached to it.
RejectPromise(p) ==
    /\ ~inTurn /\ microtasks = <<>> /\ flushing = <<>>
    /\ setupCount[SuspenseInst] > 0
    /\ promise[p].status = "pending"
    /\ Commit(RunRejections([E EXCEPT !.promise[p].status = "rejected",
                                      !.ranInFlush = <<>>, !.renderCount = 0,
                                      !.event = "reject"],
                            p, promise[p].reactions))
    /\ lastOp' = Op("reject", p)
    /\ UNCHANGED inTurn

NextTree ==
    \/ \E l \in InitialLists : Render(l)
    \/ \E l \in Lists : SetItems(l)
    \/ \E v \in Nums : SetCount(v)
    \/ \E k \in ItemKeys, v \in Nums : SetN(k, v)
    \/ FlushBegin
    \/ FlushStep(NoPlan)

SpecTree == Init /\ [][NextTree]_vars

\* The life of instances: a conditionally rendered <Counter/> that is put in
\* and taken out, its own re-renders, the root's re-renders and the detach.
NextLife ==
    \/ \E show \in 0..1 : RenderApp(<<>>, show)
    \/ \E v \in 0..1 : SetShow(v)
    \/ \E v \in Nums : SetCount(v)
    \/ \E v \in Nums : SetCounterN(v)
    \/ Unmount
    \/ UnmountAgain
    \/ FlushBegin
    \/ FlushStep(NoPlan)

SpecLife == Init /\ [][NextLife]_vars

\* Context and suspense: lookups by instances of the first and of later
\* passes, writes to the published objects, calls made outside a setup, and
\* an application with a suspense boundary.
NextApi ==
    \/ \E show \in 0..1 : RenderApp(<<>>, show)
    \/ MountAsync
    \/ \E v \in 0..1 : SetShow(v)
    \/ \E pr \in CtxProps, v \in Nums : SetCtx(pr, v)
    \/ \E op \in SeqToSet(ApiOps) : CallOutside(op)
    \/ \E p \in Promises : ResolvePromise(p)
    \/ \E p \in Promises : RejectPromise(p)
    \/ ResolveAll
    \/ FlushBegin
    \/ FlushStep(NoPlan)

SpecApi == Init /\ [][NextApi]_vars

\* Unkeyed siblings: <Banner/>, rendered in front of <Child/> while banner is
\* set, is put in and taken out.
NextPos ==
    \/ \E banner \in 0..1 : MountBanner(banner)
    \/ \E v \in 0..1 : SetBanner(v)
    \/ \E v \in Nums : SetCount(v)
    \/ FlushBegin
    \/ FlushStep(NoPlan)

SpecPos == Init /\ [][NextPos]_vars

\* A read in a setup: <Banner/> reads a key of a published object in its
\* component function, and event handlers write the keys.
NextSetupRead ==
    \/ \E banner \in 0..1 : MountBanner(banner)
    \/ \E v \in 0..1 : SetBanner(v)
    \/ \E pr \in CtxProps, v \in Nums : SetCtx(pr, v)
    \/ FlushBegin
    \/ FlushStep(NoPlan)

SpecSetupRead == Init /\ [][NextSetupRead]_vars

\* Promises that have settled when the application with the boundary starts.
NextEarly ==
    \/ \E p \in Promises, status \in {"resolved", "rejected"} : SettleEarly(p, status)
    \/ MountAsync
    \/ \E show \in 0..1 : RenderApp(<<>>, show)
    \/ \E v \in 0..1 : SetShow(v)
    \/ \E p \in Promises : ResolvePromise(p)
    \/ \E p \in Promises : RejectPromise(p)
    \/ FlushBegin
    \/ FlushStep(NoPlan)

SpecEarly == Init /\ [][NextEarly]_vars

\* A setup inside a setup: App's component function renders <Inner/>.
NextNest ==
    \/ \E l \in InitialLists : MountNested(l)
    \/ \E v \in Nums : SetCount(v)
    \/ \E k \in ItemKeys, v \in Nums : SetN(k, v)
    \/ FlushBegin
    \/ FlushStep(NoPlan)

SpecNest == Init /\ [][NextNest]_vars

\* Shrinking props: <Child/> is rendered with count or without any props.
NextShrink ==
    \/ \E l \in InitialLists : Render(l)
    \/ \E v \in 0..1 : SetBare(v)
    \/ \E v \in Nums : SetCount(v)
    \/ FlushBegin
    \/ FlushStep(NoPlan)

SpecShrink == Init /\ [][NextShrink]_vars

\* A root attachment whose tree holds a component that writes, in its render
\* function, the property it reads there: every flush schedules the next.
NextLoop ==
    \/ MountLoop
    \/ FlushBegin
    \/ FlushStep(NoPlan)

SpecLoop == Init /\ [][NextLoop]_vars

(***************************************************************************)
(* Properties.                                                             *)
(***************************************************************************)
NoDup(q) == \A i, j \in 1..Len(q) : q[i] = q[j] => i = j

Live(o) == o \in created /\ ~isDisposed[o]

Pending(o) == o \in SeqToSet(pendingNotifications)

Ran(o) == o \in SeqToSet(lastRan)

\* The pairs a callback is subscribed to.
Subscribed(o) == {pr \in Props : o \in SeqToSet(listeners[pr])}

\* C1: whatever was written in a turn, the flush that follows invokes each
\* callback at most once; a callback that ran has read the values now stored
\* (or a write made during the flush has scheduled it again); and when the
\* flush is over no live callback is left with values it has not seen.
C1_Batching ==
    /\ NoDup(ranInFlush)
    /\ \A o \in Observers :
          lastOp.op = "step" /\ Ran(o) /\ ~isDisposed[o] => fresh[o] \/ Pending(o)
    /\ ~inTurn /\ flushing = <<>> /\ lastOp.op \in {"flush", "step"}
          => \A o \in Observers : Live(o) => fresh[o] \/ Pending(o)

\* Two writes in one turn, then a flush in which both callbacks ran once.
C1_Witness ==
    /\ turnWrites = MaxWrites
    /\ lastOp.op = "step" /\ lastRan # <<>> /\ flushing = <<>>
    /\ Len(ranInFlush) = 2 /\ NoDup(ranInFlush)
    /\ pendingNotifications = <<>>
    /\ \A o \in Observers : Live(o) /\ fresh[o] /\ lastRead[o] # {}

\* The values of p that a step changed.
Changed(k) == target'[<<"p", k>>] # target[<<"p", k>>]

\* C2: after every step a live callback is subscribed to exactly the pairs
\* its latest run read, and a write schedules exactly the live callbacks whose
\* latest run read the written property.
C2_StaleEdges ==
    [][/\ \A o \in Observers : Live(o)' => Subscribed(o)' = lastRead'[o]
       /\ lastOp'.op \in {"set", "setSame"} =>
             \A o \in Observers :
                /\ Live(o) /\ (\E k \in KeySet : Changed(k) /\ <<"p", k>> \in lastRead[o])
                      => Pending(o)'
                /\ Pending(o)' /\ ~Pending(o)
                      => \E k \in KeySet : Changed(k) /\ <<"p", k>> \in lastRead[o]]_vars

\* A callback that ran again in a flush and read only p.b in that run: a write
\* of this turn (to p.a, as the callback has seen all it read) left it alone.
C2_Witness ==
    /\ lastOp.op = "set" /\ turnWrites = 1
    /\ \E o \in Observers :
          /\ Live(o) /\ o \in SeqToSet(ranInFlush)
          /\ lastRead[o] = {<<"p", "b">>} /\ fresh[o] /\ ~Pending(o)

\* C3: a disposed callback's body is never executed again, whether or not it
\* was pending when it was disposed, and no write schedules it any more.
C3_DisposedInert ==
    [][\A o \in Observers : isDisposed[o] =>
          /\ ~Ran(o)'
          /\ isDisposed'[o]
          /\ Pending(o)' => Pending(o)
          /\ Subscribed(o)' = {}]_vars

\* The flush reached a callback that was disposed after a write of the turn
\* had made it pending, and did not execute it.
C3_Witness ==
    /\ lastOp.op = "step" /\ lastRan = <<>>
    /\ isDisposed[lastOp.o] /\ turnWrites > 0

\* C4: assigning the value a property already holds changes neither the
\* pending notifications nor the microtask queue.
C4_SameValueSilent ==
    [][lastOp'.op = "setSame" =>
          /\ pendingNotifications' = pendingNotifications
          /\ isNotificationScheduled' = isNotificationScheduled
          /\ microtasks' = microtasks
          /\ target' = target]_vars

\* Such an assignment, made while each of p.a and p.b has a subscriber.
C4_Witness ==
    /\ lastOp.op = "setSame"
    /\ \A k \in {"a", "b"} : \E o \in Observers : Live(o) /\ <<"p", k>> \in Subscribed(o)
    /\ pendingNotifications = <<>>

\* C5: as long as nothing is written, every read of a property that holds a
\* plain object returns what the read before it returned.
C5_SameWrapper ==
    [][lastGet # NoResult /\ lastGet' # NoResult => lastGet' = lastGet]_vars

\* C6: after updateProps(p, partial) every key of partial reads as partial's
\* value and every other key is missing; exactly the callbacks subscribed to a
\* key that changed or was removed are newly pending.
C6_UpdateProps ==
    [][lastOp'.op = "updateProps" =>
          /\ \A k \in KeySet :
                IF HasKey(lastArg', k)
                THEN ReflectGet(E, <<"p", k>>)' = lastArg'[k]
                ELSE target'[<<"p", k>>] = Absent
          /\ \A o \in Observers :
                /\ (\E k \in KeySet : Changed(k) /\ <<"p", k>> \in Subscribed(o))
                      => Pending(o)'
                /\ Pending(o)' /\ ~Pending(o)
                      => \E k \in KeySet : Changed(k) /\ <<"p", k>> \in Subscribed(o)]_vars

\* A bulk update that removed p.a and kept p.b: the callback that read p.a
\* is pending, the callback that read only p.b is not.
C6_Witness ==
    /\ lastOp.op = "updateProps" /\ turnWrites = 1
    /\ target[<<"p", "a">>] = Absent /\ target[<<"p", "b">>] \in Nums \cup {Undef}
    /\ \E o1, o2 \in Observers :
          /\ Live(o1) /\ <<"p", "a">> \in Subscribed(o1) /\ Pending(o1)
          /\ Live(o2) /\ Subscribed(o2) = {<<"p", "b">>} /\ ~Pending(o2)

\* The microtasks of the turn have all run.
Quiet == ~inTurn /\ microtasks = <<>> /\ flushing = <<>>

\* The text the element of <Child/> displays.
ChildShows == instance[ChildInst].shown

\* C7: once the root's handler has changed count, the render function of
\* <Child count={count}/> runs at most once in that turn, and when the turn's
\* microtasks have run it has run exactly once and the child shows the value
\* that was written.
C7_ChildRendersOnce ==
    event = "setCount" =>
        /\ renderCount <= 1
        /\ Quiet => /\ renderCount = 1
                    /\ ChildShows = target[<<StateOf(Root), "count">>]
                    /\ target[<<PropsOf(ChildInst), "count">>] = ChildShows

\* The child was rendered with count = 0, the root's count was set to 1, and
\* the microtasks that followed have run.
C7_Witness ==
    /\ event = "setCount" /\ Quiet
    /\ target[<<StateOf(Root), "count">>] = 1
    /\ instance[ChildInst].cachedVNode.out = 0
    /\ renderCount = 1 /\ ChildShows = 1

\* The keys of the <Item/> thunks among the children of a host vnode, in order.
RECURSIVE ItemKeysOf(_)
ItemKeysOf(ch) ==
    IF ch = <<>> THEN <<>>
    ELSE (IF Head(ch).key[1] = "Item" THEN <<Head(ch).key[2]>> ELSE <<>>)
         \o ItemKeysOf(Tail(ch))

\* The keyed list the root rendered last.
RootItems == ItemKeysOf(instance[Root].currentVNode.children)

\* The step is a render pass of the root in a flush.
RootRerender ==
    lastOp'.op = "step" /\ lastOp'.o = Root /\ Root \in SeqToSet(lastRan')

\* C8: the component function of an instance is called once, when the
\* instance is made: no step sets up an instance that exists, and an entry of
\* the parent's children map keeps the instance it holds, whatever props the
\* parent's render passes supply.
C8_SetupOnce ==
    [][/\ \A i \in Insts :
             /\ instance[i].exists =>
                   /\ i \notin SeqToSet(lastSetup')
                   /\ setupCount'[i] = setupCount[i]
                   /\ instance'[i].exists
             /\ setupCount'[i] = IF instance'[i].exists THEN 1 ELSE 0
       /\ \A ck \in CacheKeys :
             instance[Root].children[ck] # None
                => instance'[Root].children[ck] = instance[Root].children[ck]]_vars

\* A render pass of the root met every instance again and handed <Child/> a
\* count that differs from the one it had: nothing was set up.
C8_Witness ==
    /\ lastOp.op = "step" /\ lastOp.o = Root /\ lastRan = <<Root>>
    /\ event = "setCount" /\ Pending(ChildInst)
    /\ lastSetup = <<>>
    /\ \A i \in {Root, ChildInst} \cup {ItemInst(k) : k \in ItemKeys} :
          instance[i].exists /\ setupCount[i] = 1

\* C9: when a render pass of the root yields the keys it rendered before in
\* another order, no instance is set up, mounted or cleaned up, the children
\* map is the same, and every item keeps its local state, its render observer
\* and the text it displays.
C9_ReorderKeeps ==
    [][RootRerender /\ RootItems' # RootItems
          /\ SeqToSet(RootItems') = SeqToSet(RootItems) =>
             /\ lastSetup' = <<>> /\ lastCleaned' = <<>> /\ lastMounted' = <<>>
             /\ instance'[Root].children = instance[Root].children
             /\ setupCount' = setupCount /\ cleanupCount' = cleanupCount
             /\ \A k \in ItemKeys :
                   /\ target'[<<StateOf(ItemInst(k)), "n">>] = target[<<StateOf(ItemInst(k)), "n">>]
                   /\ isDisposed'[ItemInst(k)] = isDisposed[ItemInst(k)]
                   /\ instance'[ItemInst(k)].shown = instance[ItemInst(k)].shown]_vars

\* The root rendered the items in the order 1, 2 at first and has now rendered
\* them in the reverse order; no item was ever removed, and each still holds
\* and displays the local state 1 it was given before.
C9_Witness ==
    /\ lastOp.op = "step" /\ lastOp.o = Root /\ event = "setItems"
    /\ ItemKeysOf(instance[Root].cachedVNode.children) = [j \in 1..NumKeys |-> j]
    /\ RootItems = [j \in 1..NumKeys |-> NumKeys + 1 - j]
    /\ lastSetup = <<>> /\ lastCleaned = <<>>
    /\ \A k \in ItemKeys :
          /\ cleanupCount[ItemInst(k)] = 0 /\ ~isDisposed[ItemInst(k)]
          /\ target[<<StateOf(ItemInst(k)), "n">>] = 1
          /\ instance[ItemInst(k)].shown = 1

\* C10: a render pass of the root runs the cleanup callbacks of exactly the
\* items it rendered before and renders no more, once each; the cleanup
\* callbacks of the items that stay do not run, and no other step runs a
\* cleanup callback.
C10_DropCleansOnce ==
    [][IF RootRerender
       THEN LET dropped == SeqToSet(RootItems) \ SeqToSet(RootItems')
            IN  /\ NoDup(lastCleaned')
                /\ SeqToSet(lastCleaned') = {ItemInst(k) : k \in dropped}
                /\ \A k \in ItemKeys \ dropped :
                      cleanupCount'[ItemInst(k)] = cleanupCount[ItemInst(k)]
       ELSE lastCleaned' = <<>> /\ cleanupCount' = cleanupCount]_vars

\* The root rendered both items and has now rendered item 1 alone: the cleanup
\* callback of item 2 has run once, that of item 1 never.
C10_Witness ==
    /\ lastOp.op = "step" /\ lastOp.o = Root /\ event = "setItems"
    /\ RootItems = <<1>>
    /\ lastCleaned = <<ItemInst(2)>>
    /\ cleanupCount[ItemInst(2)] = 1 /\ isDisposed[ItemInst(2)]
    /\ cleanupCount[ItemInst(1)] = 0 /\ ~isDisposed[ItemInst(1)]
    /\ instance[ItemInst(1)].hasMounted

\* C11: when a render pass of the root renders <Counter/> again after an
\* earlier pass had removed it, the root gets a new instance: the component
\* function is called again and the local state starts from its initial value.
C11_ReAddIsFresh ==
    [][/\ RootRerender
       /\ instance[CounterInst].exists /\ cleanupCount[CounterInst] > 0
       /\ CounterInst \notin Rendered(Root) /\ CounterInst \in Rendered(Root)'
       => /\ CounterInst \in SeqToSet(lastSetup')
          /\ target'[<<StateOf(CounterInst), "n">>] = 0
          /\ ~isDisposed'[CounterInst]]_vars

\* The children of the root that the step's render pass found in the root's
\* children map.
CacheHits == {i \in Rendered(Root)' : instance[i].exists /\ instance[i].dispose}

C13_MountOnce ==
    [][\A i \in Insts :
          /\ i \in SeqToSet(lastMounted') =>
                /\ ~instance[i].hostElement /\ instance'[i].hostElement
                /\ mountCount[i] = 0
          /\ mountCount'[i] =
                IF instance'[i].hostElement /\ instance'[i].mountCallbacks # <<>>
                THEN 1 ELSE 0]_vars

\* <Counter/> was mounted, rendered again on its own and was met again by a
\* render pass of the root: its mount callbacks have run once.
C13_Witness ==
    /\ lastOp.op = "step" /\ lastOp.o = Root /\ event = "setCount"
    /\ CounterInst \in Rendered(Root) /\ ~isDisposed[CounterInst]
    /\ instance[CounterInst].currentVNode.out = 1
    /\ instance[CounterInst].hasMounted /\ mountCount[CounterInst] = 1
    /\ lastMounted = <<>>

\* C14: whatever re-renders, removals and detach calls happen, the cleanup
\* callbacks of an instance are called at most once and so are its mount
\* callbacks.
C14_AtMostOnce ==
    \A i \in Insts : cleanupCount[i] <= 1 /\ mountCount[i] <= 1

\* The names of the callbacks of instance i among the calls of a step.
RECURSIVE CallsOf(_, _)
CallsOf(i, calls) ==
    IF calls = <<>> THEN <<>>
    ELSE (IF Head(calls)[1] = i THEN <<Head(calls)[2]>> ELSE <<>>) \o CallsOf(i, Tail(calls))

\* C15: the mount callbacks of an instance are called in the order in which
\* onMount registered them, and its cleanup callbacks in the order in which
\* onCleanup registered them.
C15_RegistrationOrder ==
    [][\A i \in Insts :
          CallsOf(i, lastCalls') =
             (IF i \in SeqToSet(lastMounted') THEN instance'[i].mountCallbacks ELSE <<>>)
             \o (IF i \in SeqToSet(lastCleaned') THEN instance'[i].cleanupCallbacks ELSE <<>>)]_vars

\* The detach has called the two cleanup callbacks of <Counter/>, whose two
\* mount callbacks had been called before.
C15_Witness ==
    /\ lastOp.op = "unmount"
    /\ CallsOf(CounterInst, lastCalls) = <<"c1", "c2">>
    /\ instance[CounterInst].mountCallbacks = <<"m1", "m2">>
    /\ mountCount[CounterInst] = 1 /\ cleanupCount[CounterInst] = 1

\* The errors the application caught at a place, in order.
ErrorsAt(place, errors) == SelectSeq(errors, LAMBDA x : x[1] = place)

\* How often instance i occurs in a list of instances.
Times(i, list) == Cardinality({j \in 1..Len(list) : list[j] = i})

\* The errors of n rounds of calls of every operation of the setup phase.
OutsideErrors(place, n) ==
    [j \in 1..(n * Len(ApiOps)) |->
        <<place, OutsideMessage(ApiOps[((j - 1) % Len(ApiOps)) + 1])>>]

\* C16: a call of onMount, onCleanup, context set, context get or
\* createSuspense made while no instance is in its setup phase - from an
\* event handler, from a render function or from a mount callback - throws
\* an error, and nothing is registered: no callback, no published token, no
\* promise, and the instances are as they were.
C16_OutsideSetupThrows ==
    [][/\ lastOp'.op = "call" =>
             /\ lastErrors' = <<<<"event", OutsideMessage(lastOp'.o)>>>>
             /\ instance' = instance
             /\ target' = target
             /\ promise' = promise
             /\ microtasks' = microtasks
       /\ ErrorsAt("render", lastErrors') =
             OutsideErrors("render", Times(CounterInst, lastRan'))
       /\ ErrorsAt("mount", lastErrors') =
             OutsideErrors("mount", Times(CounterInst, lastMounted'))
       /\ \A i \in Insts :
             /\ "late" \notin SeqToSet(instance'[i].mountCallbacks)
             /\ "late" \notin SeqToSet(instance'[i].cleanupCallbacks)
             /\ ~instance'[i].contexts["U"].has
       /\ \A p \in Promises : CounterInst \in SeqToSet(lastRan') => promise'[p] = promise[p]
      ]_vars

\* An event handler has just made such a call, after the render function and a
\* mount callback of <Counter/> made theirs.
C16_Witness ==
    /\ lastOp = Op("call", "createSuspense")
    /\ lastErrors = <<<<"event", OutsideMessage("createSuspense")>>>>
    /\ instance[CounterInst].hasMounted

\* The element that holds the element of instance i in the JSX of the
\* application.
ParentOf(i) ==
    CASE i = Root -> None
      [] i = LeafInst -> CounterInst
      [] i = AsyncInst -> SuspenseInst
      [] OTHER -> Root

\* The path from instance i up to the root.
RECURSIVE PathUp(_)
PathUp(i) == IF i = None THEN <<>> ELSE <<i>> \o PathUp(ParentOf(i))

\* The tokens the setup of instance i looks up.
LookedUp(i) ==
    CASE i = ChildInst -> {"T"}
      [] i = LeafInst -> {"T", "V", "U"}
      [] OTHER -> {}

\* C17: when an instance is set up, in the first render pass or in a later
\* one, each token it looks up that an instance on its path up to the root has
\* published is found, and the lookup takes the values of the nearest such
\* instance.
C17_NearestPublisher ==
    [][\A i \in SeqToSet(lastSetup') : \A t \in LookedUp(i) :
          LET pubs == SelectSeq(PathUp(i), LAMBDA a : instance'[a].contexts[t].has)
          IN  pubs # <<>> =>
                /\ instance'[i].found[t] = Head(pubs)
                /\ instance'[i].view[t] =
                      createGetterObject([target |-> target'],
                                         instance'[Head(pubs)].contexts[t].values, NoView)
                /\ instance'[i].view[t] # NoView
      ]_vars

\* <Leaf/> has been set up in a pass after the first: it found V at the
\* root, two levels up, and T at <Counter/>, which shadows the root's.
C17_Witness ==
    /\ lastOp = Op("step", Root)
    /\ LeafInst \in SeqToSet(lastSetup)
    /\ instance[LeafInst].found["V"] = Root
    /\ instance[LeafInst].found["T"] = CounterInst
    /\ instance[ChildInst].found["T"] = Root

\* C18: the second publication of a token by one instance throws and leaves
\* what the instance published first; the lookup of a token that no instance
\* on the path up to the root has published throws.
C18_ContextErrors ==
    [][/\ CounterInst \in SeqToSet(lastSetup') =>
             /\ <<"setup", "context.set() can only be called once per component">>
                    \in SeqToSet(lastErrors')
             /\ instance'[CounterInst].contexts["T"] = [has |-> TRUE, values |-> <<CtxC>>]
       /\ LeafInst \in SeqToSet(lastSetup') =>
             /\ \A a \in SeqToSet(PathUp(LeafInst)) : ~instance'[a].contexts["U"].has
             /\ <<"setup", "Context not found in component tree">> \in SeqToSet(lastErrors')
             /\ instance'[LeafInst].found["U"] = None
             /\ instance'[LeafInst].view["U"] = NoView
      ]_vars

\* <Counter/> and <Leaf/> have been set up and the application caught both errors.
C18_Witness ==
    /\ CounterInst \in SeqToSet(lastSetup)
    /\ LeafInst \in SeqToSet(lastSetup)
    /\ Len(ErrorsAt("setup", lastErrors)) = 2

PendingCount == ReflectGet(E, <<StateOf(SuspenseInst), "pendingCount">>)

\* The promises handed to createSuspense that have not resolved.
Unsettled == {p \in Promises : promise[p].status = "pending"}

\* C20: once the application with <Suspense><Async/></Suspense>, where
\* <Async/> hands two unsettled promises to one createSuspense call, has been
\* started and the microtasks have run, the boundary's pending counter is the
\* number of the promises that have not resolved (2, then 1, then 0), and the
\* boundary displays its fallback exactly while the counter is above 0.
C20_PendingCounter ==
    (setupCount[SuspenseInst] > 0 /\ Quiet) =>
        /\ PendingCount = Cardinality(Unsettled)
        /\ instance[SuspenseInst].shown = 1 <=> PendingCount > 0

C22_RejectionLogged ==
    [][LET before == target[<<StateOf(SuspenseInst), "pendingCount">>]
           after == target'[<<StateOf(SuspenseInst), "pendingCount">>]
       IN  \A p \in Promises :
              (promise[p].status = "pending" /\ promise'[p].status = "rejected") =>
                  /\ after = before - 1
                  /\ ErrorsAt("console", lastErrors') = << <<"console", p>> >>
                  /\ ErrorsAt("caller", lastErrors') = <<>>]_vars

\* The reaction createSuspense attaches for <Async/> at the boundary above it.
AsyncReaction == <<StateOf(AsyncInst), SuspenseInst>>

\* The createSuspense call in the setup of <Leaf/>, which has no boundary
\* above it, has thrown and has registered nothing.
NoBoundaryThrows ==
    LeafInst \in SeqToSet(lastSetup) =>
        /\ ErrorsAt("unbounded", lastErrors) =
              << <<"unbounded", "createSuspense must be used inside a <Suspense> boundary">> >>
        /\ \A p \in Promises : ~promise[p].cached /\ promise[p].reactions = <<>>

AsyncRendered == ReflectGet(E, <<StateOf(Root), "async">>) = 1

C25_ValueArrives ==
    (setupCount[SuspenseInst] > 0 /\ Quiet) =>
        \A p \in Promises :
           promise[p].status = "resolved" =>
              /\ ReflectGet(E, <<StateOf(AsyncInst), p>>) = 1
              /\ instance[AsyncInst].exists

\* C26: in an application attached to a root whose <Looper/> writes in its
\* render function the property it reads there, the render function of
\* <Looper/> is not run more than 100 times in a row: the attachment stops
\* the loop with an error by then.
C26_LoopStopped == renderDepth <= MaxRenderDepth

C28_DeferredToNextFlush ==
    [][/\ (lastOp'.op = "step" /\ flushing # <<>>) =>
             /\ flushing' = Tail(flushing)
             /\ lastRan' = IF isDisposed[Head(flushing)] THEN <<>> ELSE <<Head(flushing)>>
             /\ \A o \in Observers :
                   Pending(o)' => FlushTask \in SeqToSet(microtasks')
       /\ lastOp'.op = "flush" =>
             /\ SeqToSet(pendingNotifications) \subseteq SeqToSet(flushing')
             /\ pendingNotifications' = <<>>]_vars

\* A callback that ran earlier in the executing flush has been scheduled again
\* by a write of the callback that ran after it; it waits for the next flush.
C28_Witness ==
    /\ lastOp.op = "step" /\ lastRan # <<>>
    /\ \E o \in Observers :
          /\ o # lastOp.o /\ o \in SeqToSet(ranInFlush)
          /\ Live(o) /\ Pending(o) /\ ~fresh[o]
          /\ o \notin SeqToSet(flushing)
    /\ FlushTask \in SeqToSet(microtasks)

\* s is the beginning of t.
IsPrefix(s, t) == Len(s) <= Len(t) /\ SubSeq(t, 1, Len(s)) = s

\* C29: the pending notifications keep the order in which the callbacks were
\* first enqueued (a callback enqueued again stays where it is and later ones
\* are added behind), the flush captures them in that order, and each step of
\* the flush invokes the next one of the captured list, so the callbacks of
\* one flush run in the order of their first enqueueing.
C29_EnqueueOrder ==
    [][/\ lastOp'.op # "flush" => IsPrefix(pendingNotifications, pendingNotifications')
       /\ lastOp'.op = "flush" => flushing' = pendingNotifications
       /\ (lastOp'.op = "step" /\ flushing # <<>>) =>
             ranInFlush' = ranInFlush \o (IF isDisposed[Head(flushing)] THEN <<>>
                                          ELSE <<Head(flushing)>>)]_vars

\* A flush has run o2 and then o1: o2 was enqueued first, by the first of the
\* two writes of the turn.
C29_Witness ==
    /\ lastOp.op = "step" /\ flushing = <<>>
    /\ ranInFlush = <<"o2", "o1">>
    /\ turnWrites = MaxWrites

\* The instances of <Child/> that have been set up.
ChildSetups == setupCount[ChildInst] + setupCount[ChildInst1]

\* C30: <Child/>, the only unkeyed child of its function in the root's pass,
\* maps to one instance for as long as the application is attached, whether
\* or not the unkeyed <Banner/> is rendered in front of it: once the
\* application is idle the component function of <Child/> has been called
\* once, and the instance it made then is the one that is rendered.
C30_SameFunctionOrdinal ==
    Idle => /\ ChildSetups = 1
            /\ \E c \in {ChildInst, ChildInst1} :
                  /\ setupCount[c] = 1
                  /\ c \in Rendered(Root)
                  /\ ~isDisposed[c]

\* C31: an instance whose cleanup callbacks have run is no longer held by the
\* children map of any instance, so no later lookup can return it.
C31_TornDownForgotten ==
    \A p \in Insts : \A ck \in CacheKeys :
       instance[p].children[ck] # None =>
          cleanupCount[instance[p].children[ck]] = 0

\* C32: once the root has re-rendered <Child/> without props and the
\* application is idle, the key count that <Child/> had before reads as
\* missing in its props container, and <Child/>, whose render function read
\* it, has rendered again and displays undefined.
C32_DroppedKeysMissing ==
    (Idle /\ ReflectGet(E, <<StateOf(Root), "bare">>) = 1) =>
        /\ target[<<PropsOf(ChildInst), "count">>] = Absent
        /\ instance[ChildInst].shown = Undef

\* C33: an assignment of another value to the local state n of an item,
\* while that item's render callback is the one subscriber of n, schedules
\* the render callback of that item and no other, and the flush that follows
\* runs that callback alone: neither the root nor another instance renders
\* again.
C33_IsolatedRerender ==
    [][/\ (/\ lastOp'.op = "setN" /\ target' # target
           /\ listeners[<<StateOf(lastOp'.o), "n">>] = <<lastOp'.o>>) =>
             pendingNotifications' = <<lastOp'.o>>
       /\ (lastOp'.op = "step" /\ event = "setN") =>
             /\ componentFn(lastOp'.o) = "Item"
             /\ lastRan' = <<lastOp'.o>>
             /\ flushing' = <<>> /\ pendingNotifications' = <<>>]_vars

\* The first item has rendered again on its own while the second item and
\* <Child/> are displayed next to it.
C33_Witness ==
    /\ lastOp = Op("step", ItemInst(1)) /\ event = "setN"
    /\ lastRan = <<ItemInst(1)>>
    /\ Rendered(Root) = {ItemInst(1), ItemInst(2), ChildInst}
    /\ instance[ItemInst(1)].shown = 1

(***************************************************************************)
(* C34: after the setup of an instance B that ran inside the setup of an   *)
(* instance A has returned or thrown, the current-instance pointer and the *)
(* target of the lifecycle registrations are A's again: an onMount call A  *)
(* makes afterwards succeeds and registers the callback on A.              *)
(***************************************************************************)
C34_OuterRegisters ==
    (lastOp.op = "render" /\ rootVNode = "mounted" /\ instance[InnerInst].exists) =>
        /\ instance[InnerInst].mountCallbacks = <<"inner">>
        /\ ErrorsAt("inner", lastErrors) = << <<"inner", "Error: inner">> >>
        /\ instance[Root].contexts["T"].has
        /\ instance[Root].mountCallbacks = <<"late">>
        /\ ErrorsAt("setup", lastErrors) = <<>>

C36_SettlesToContent ==
    (setupCount[SuspenseInst] > 0 /\ Quiet /\ Unsettled = {}) =>
        /\ PendingCount = 0
        /\ instance[SuspenseInst].shown = 0
        /\ instance[AsyncInst].hostElement

\* C37: the reads of reactive properties made by a child's component function
\* (its setup, which runs while the parent's render callback is running) do
\* not subscribe the parent's render callback: the render callback of App,
\* whose render function reads no key of a published object, is a listener of
\* none of them, and a flush that follows a write to such a key does not run it.
C37_SetupReadsUntracked ==
    /\ \A pr \in CtxProps : Root \notin SeqToSet(listeners[pr])
    /\ (lastOp.op = "step" /\ event = "setCtx") => Root \notin SeqToSet(lastRan)

\* C38: when an assignment p.o.x = v gives the property x of the plain object
\* held in p.o another value, every callback that is not disposed and whose
\* last run read p.o.x through the container is pending afterwards.
C38_NestedWriteSchedules ==
    [][(lastOp'.op = "setNested" /\ target'[<<"n", "x">>] # target[<<"n", "x">>]) =>
          \A o \in Observers :
             (<<"n", "x">> \in lastRead[o] /\ ~isDisposed[o]) => Pending(o)']_vars

\* C39: when a flush invokes a callback, also one that throws, every other
\* callback captured for that flush that has not run yet and is not disposed
\* is either still to be invoked by that flush or pending for a later one: no
\* notification is dropped.
C39_NoneDropped ==
    [][(lastOp'.op = "step" /\ flushing # <<>>) =>
          \A o \in SeqToSet(Tail(flushing)) :
             ~isDisposed'[o] => (o \in SeqToSet(flushing') \/ Pending(o)')]_vars

IsFlushTask(t) == t.type = "flush"

\* The flush microtasks that are queued and have not started.
FlushTasksQueued == Len(SelectSeq(microtasks, IsFlushTask))

\* C40: the pending set is non-empty exactly when isNotificationScheduled is
\* set, which is exactly when one flush microtask is queued; there is never
\* more than one flush microtask queued; this also holds after a flush in
\* which a callback has thrown.
C40_OneFlushQueued ==
    /\ pendingNotifications # <<>> <=> isNotificationScheduled
    /\ isNotificationScheduled <=> FlushTasksQueued = 1
    /\ FlushTasksQueued <= 1

\* A callback has thrown in a flush that was the only one queued: the flag
\* is reset and nothing is pending.
C40_Witness ==
    /\ lastOp.op = "step"
    /\ ErrorsAt("uncaught", lastErrors) # <<>>
    /\ ~isNotificationScheduled /\ pendingNotifications = <<>> /\ microtasks = <<>>

====
